---- MODULE Spec2Model ----
(***************************************************************************)
(* The client-side synchronized datastore of dropbox/datastore.py:         *)
(* Datastore, Table, Record, List and _Change, together with the server    *)
(* the datastore talks to through _DatastoreOperations.                    *)
(***************************************************************************)
EXTENDS Integers, Sequences, FiniteSets, TLC

\* ---------------------------------------------------------------- sizes
BASE_DATASTORE_SIZE == 1000
BASE_DELTA_SIZE == 100
BASE_CHANGE_SIZE == 100
BASE_RECORD_SIZE == 100
BASE_FIELD_SIZE == 100
BASE_ITEM_SIZE == 20

\* ---------------------------------------------------------------- bounds
\* Longest server log (highest revision) explored.
MaxRev == 2
\* Most changes a caller stages before it commits or rolls back.
MaxPending == 2
\* Largest max_tries passed to transaction().
MaxTries == 2
\* Longest list value built through List handles.
MaxListLen == 2
\* Largest clock reading (milliseconds) commit() stamps as mtime.
MaxTime == 1
\* Most records the datastore has counted when a snapshot is applied.
MaxRecordCount == 3
\* Bytes of changes staged since the datastore was opened, beyond which no
\* further change is staged.
MaxPendingBytes == 1000

\* The integer codes of the roles.
ROLE_OWNER == 3000
ROLE_EDITOR == 2000
ROLE_VIEWER == 1000
ROLE_NONE == 0

\* ---------------------------------------------------------------- values
\* Python values.  An atom is [t, n]: t the Python type, n the payload (for
\* a string or blob its length in bytes, for a Date its milliseconds).  A
\* list field holds a tuple of atoms.
None == [t |-> "none", n |-> 0]
BoolV(n) == [t |-> "bool", n |-> n]
IntV(n) == [t |-> "int", n |-> n]
FloatV(n) == [t |-> "float", n |-> n]
\* +inf, -inf and nan: sp names the special float.
SpecialFloatV(sp) == [t |-> "float", n |-> 0, sp |-> sp]
StrV(n) == [t |-> "str", n |-> n]
DateV(n) == [t |-> "date", n |-> n]
BytesV(n) == [t |-> "bytes", n |-> n]
ListV(s) == [t |-> "list", items |-> s]
\* A value whose type is not one of VALID_ATOM_TYPES.
ObjV == [t |-> "object", n |-> 0]

VALID_ATOM_TYPES == {"int", "bool", "float", "str", "date", "bytes"}

\* isinstance(v, tuple)
IsTuple(v) == v.t = "list"

\* isinstance(v, (List, list, tuple)); a JSON array decodes to a Python list.
IsSequence(v) == v.t \in {"list", "pylist"}

\* Python truth value of v ("if old_value:").  Date defines neither
\* __len__ nor __nonzero__, so a Date is always true.
Truthy(v) ==
    CASE v.t = "none" -> FALSE
      [] v.t \in {"list", "pylist"} -> Len(v.items) > 0
      [] v.t \in {"date", "object"} -> TRUE
      [] v.t = "float" /\ "sp" \in DOMAIN v -> TRUE
      [] OTHER -> v.n # 0

\* dict.get(k), d[k] = v, del d[k]
DictGet(d, k) == IF k \in DOMAIN d THEN d[k] ELSE None
DictSet(d, k, v) == [x \in DOMAIN d \cup {k} |-> IF x = k THEN v ELSE d[x]]
DictDel(d, k) == [x \in DOMAIN d \ {k} |-> d[x]]
EmptyDict == [x \in {} |-> None]

RECURSIVE SumOver(_, _)
SumOver(f, S) ==
    IF S = {} THEN 0
    ELSE LET k == CHOOSE x \in S : TRUE IN f[k] + SumOver(f, S \ {k})

RECURSIVE SumSeq(_)
SumSeq(s) == IF s = <<>> THEN 0 ELSE Head(s) + SumSeq(Tail(s))

\* Python slice s[a:b] of a tuple, for a, b >= 0 (0-based, clamped).
PySlice(s, a, b) ==
    LET lo == IF a > Len(s) THEN Len(s) ELSE a
        hi == IF b > Len(s) THEN Len(s) ELSE b
    IN IF hi <= lo THEN <<>> ELSE SubSeq(s, lo + 1, hi)

PySliceFrom(s, a) == PySlice(s, a, Len(s))

\* ---------------------------------------------------------------- names
\* Python's a == b on two atoms: int, float and bool compare as numbers
\* (False == 0, True == 1 == 1.0), nan equals nothing, every other type
\* equals only its own.
NUMERIC_TYPES == {"int", "float", "bool"}

AtomEq(a, b) ==
    IF a.t \in NUMERIC_TYPES /\ b.t \in NUMERIC_TYPES
    THEN IF "sp" \in DOMAIN a \/ "sp" \in DOMAIN b
         THEN "sp" \in DOMAIN a /\ "sp" \in DOMAIN b /\ a.sp = b.sp /\ a.sp # "nan"
         ELSE a.n = b.n
    ELSE a.t = b.t /\ a.n = b.n

\* Python's a == b on two values: tuples compare item by item with ==, a
\* tuple never equals a list or an atom.
PyEq(a, b) ==
    IF IsSequence(a) \/ IsSequence(b)
    THEN /\ a.t = b.t
         /\ Len(a.items) = Len(b.items)
         /\ \A i \in 1..Len(a.items) : AtomEq(a.items[i], b.items[i])
    ELSE AtomEq(a, b)

Record_is_valid_field(field) == field # "@"

_typecheck_atom_ok(value) == value.t \in VALID_ATOM_TYPES

\* _typecheck_value raises TypeError exactly when this is false.
_typecheck_value_ok(value) ==
    IF IsTuple(value)
    THEN \A i \in 1..Len(value.items) : _typecheck_atom_ok(value.items[i])
    ELSE _typecheck_atom_ok(value)

\* ---------------------------------------------------------------- size accounting
_compute_atom_size(value) ==
    IF value.t \in {"str", "bytes"} THEN value.n ELSE 0

\* Variant of _compute_list_size: the items' own bytes only.
_compute_list_size_flat(items) ==
    SumSeq([i \in 1..Len(items) |-> _compute_atom_size(items[i])])

_compute_list_size(items) ==
    Len(items) * BASE_ITEM_SIZE
        + SumSeq([i \in 1..Len(items) |-> _compute_atom_size(items[i])])

_compute_value_size(value) ==
    IF IsSequence(value) THEN _compute_list_size(value.items)
    ELSE _compute_atom_size(value)

_compute_field_size(value) ==
    IF value = None THEN 0 ELSE BASE_FIELD_SIZE + _compute_value_size(value)

_compute_record_size_for_fields(fields) ==
    BASE_RECORD_SIZE
        + SumOver([k \in DOMAIN fields |-> _compute_field_size(fields[k])], DOMAIN fields)

\* ---------------------------------------------------------------- field ops
ValuePut(v) == [o |-> "P", v |-> v]
ValueDelete == [o |-> "D"]
_make_list_create == [o |-> "LC"]
_make_list_put(index, value) == [o |-> "LP", i |-> index, v |-> value]
_make_list_insert(index, value) == [o |-> "LI", i |-> index, v |-> value]
_make_list_delete(index) == [o |-> "LD", i |-> index]
_make_list_move(index, newindex) == [o |-> "LM", i |-> index, j |-> newindex]

LIST_OPS == {"LC", "LP", "LI", "LD", "LM"}
_is_listop(op) == op.o \in LIST_OPS

_get_op_value(op) == IF op.o \in {"P", "LP", "LI"} THEN op.v ELSE None

_list_move(old, index, newindex) ==
    IF index <= newindex
    THEN PySlice(old, 0, index) \o PySlice(old, index + 1, newindex + 1)
            \o PySlice(old, index, index + 1) \o PySliceFrom(old, newindex + 1)
    ELSE PySlice(old, 0, newindex) \o PySlice(old, index, index + 1)
            \o PySlice(old, newindex, index) \o PySliceFrom(old, index + 1)

\* ---------------------------------------------------------------- _Change
\* data and undo are dicts, or None.
_Change(op, tid, recordid, data, undo) ==
    [op |-> op, tid |-> tid, recordid |-> recordid, data |-> data, undo |-> undo]

REVERSED_OPS(op) == CASE op = "I" -> "D" [] op = "D" -> "I" [] OTHER -> "U"

_Change_size(ch) ==
    BASE_CHANGE_SIZE +
    CASE ch.op = "I" ->
            SumOver([k \in DOMAIN ch.data |->
                        BASE_FIELD_SIZE + _compute_value_size(ch.data[k])],
                    DOMAIN ch.data)
      [] ch.op = "U" ->
            SumOver([k \in DOMAIN ch.data |->
                        BASE_FIELD_SIZE +
                        (IF _get_op_value(ch.data[k]) # None
                         THEN _compute_value_size(_get_op_value(ch.data[k]))
                         ELSE 0)],
                    DOMAIN ch.data)
      [] OTHER -> 0

\* _invert_listop returns (invop, after); ok is false where an assert fires.
_invert_listop(undo, name, op) ==
    LET before == undo[name] IN
    IF op.o = "LC" THEN [ok |-> TRUE, invop |-> ValueDelete, after |-> ListV(<<>>)]
    ELSE IF ~IsTuple(before) THEN [ok |-> FALSE, invop |-> op, after |-> None]
    ELSE LET b == before.items
             index == op.i
         IN CASE op.o = "LP" ->
                   IF ~(0 <= index /\ index < Len(b))
                   THEN [ok |-> FALSE, invop |-> op, after |-> None]
                   ELSE [ok |-> TRUE,
                         invop |-> _make_list_put(index, b[index + 1]),
                         after |-> ListV(PySlice(b, 0, index) \o <<op.v>>
                                            \o PySliceFrom(b, index + 1))]
              [] op.o = "LI" ->
                   IF ~(0 <= index /\ index <= Len(b))
                   THEN [ok |-> FALSE, invop |-> op, after |-> None]
                   ELSE [ok |-> TRUE,
                         invop |-> _make_list_delete(index),
                         after |-> ListV(PySlice(b, 0, index) \o <<op.v>>
                                            \o PySliceFrom(b, index))]
              [] op.o = "LD" ->
                   IF ~(0 <= index /\ index < Len(b))
                   THEN [ok |-> FALSE, invop |-> op, after |-> None]
                   ELSE [ok |-> TRUE,
                         invop |-> _make_list_insert(index, b[index + 1]),
                         after |-> ListV(PySlice(b, 0, index)
                                            \o PySliceFrom(b, index + 1))]
              [] OTHER ->
                   IF ~(0 <= index /\ index < Len(b) /\ 0 <= op.j /\ op.j < Len(b))
                   THEN [ok |-> FALSE, invop |-> op, after |-> None]
                   ELSE [ok |-> TRUE,
                         invop |-> _make_list_move(op.j, index),
                         after |-> ListV(_list_move(b, index, op.j))]

\* Variant of InvertFieldOp: the inverse of a put or delete forgets the old value.
InvertFieldOp_forget(undo, name, op) ==
    IF _is_listop(op) THEN _invert_listop(undo, name, op)
    ELSE [ok |-> TRUE, invop |-> ValueDelete, after |-> None]

\* The inverse of one field op of an Update: [ok, invop, after].
InvertFieldOp(undo, name, op) ==
    IF _is_listop(op) THEN _invert_listop(undo, name, op)
    ELSE LET before == DictGet(undo, name) IN
         IF op.o = "P"
         THEN IF before = None
              THEN [ok |-> TRUE, invop |-> ValueDelete, after |-> op.v]
              ELSE [ok |-> TRUE, invop |-> ValuePut(before), after |-> op.v]
         ELSE [ok |-> TRUE, invop |-> ValuePut(before), after |-> None]

\* The inverted Update built from the per-field inverses inv.
InvertUpdate(ch, inv) ==
    [ok |-> \A k \in DOMAIN inv : inv[k].ok,
     change |-> _Change("U", ch.tid, ch.recordid,
                        [k \in DOMAIN inv |-> inv[k].invop],
                        [k \in DOMAIN inv |-> inv[k].after])]

\* _Change.invert(): [ok, change]; ok is false where an assert fires.
_Change_invert(ch) ==
    IF ch.op = "U"
    THEN InvertUpdate(ch, [k \in DOMAIN ch.data |-> InvertFieldOp(ch.undo, k, ch.data[k])])
    ELSE [ok |-> TRUE,
          change |-> _Change(REVERSED_OPS(ch.op), ch.tid, ch.recordid, ch.undo, ch.data)]

\* _Change.without_undo
_Change_without_undo(ch) == _Change(ch.op, ch.tid, ch.recordid, ch.data, None)

\* ---------------------------------------------------------------- Datastore object
\* A Datastore with its tables, as one value d.  d.records[tid] is
\* Table._records, d.record_sizes[tid] is Table._record_sizes, d.exc is the
\* exception the call in progress has raised ("none" when it has not).
Tids == {"t1", ":info", ":acl"}

Datastore_init(shareable, role) ==
    [shareable |-> shareable, role |-> role,
     rev |-> 0,
     records |-> [tid \in Tids |-> EmptyDict],
     record_sizes |-> [tid \in Tids |-> EmptyDict],
     changes |-> <<>>,
     record_count |-> 0,
     size |-> BASE_DATASTORE_SIZE,
     pending_changes_size |-> 0,
     exc |-> "none"]

Raise(d, e) == [d EXCEPT !.exc = e]
Failed(d) == d.exc # "none"

_check_edit_permission(d) ==
    IF d.shareable /\ d.role \notin {"owner", "editor"}
    THEN Raise(d, "DatastorePermissionError")
    ELSE d

get_record_count(d) == d.record_count

get_size(d) == d.size

get_pending_changes_size(d) ==
    IF d.changes # <<>> THEN BASE_DELTA_SIZE + d.pending_changes_size ELSE 0

_add_pending_change(d, change) ==
    [d EXCEPT !.changes = Append(@, change),
              !.pending_changes_size = @ + _Change_size(change)]

\* Table._get_record_size: the cached size, 0 for an absent record.
_get_record_size(d, tid, recordid) ==
    IF recordid \in DOMAIN d.record_sizes[tid] THEN d.record_sizes[tid][recordid] ELSE 0

\* Its assert: a record with fields always has a cached size.
_get_record_size_asserts(d, tid, recordid) ==
    /\ _get_record_size(d, tid, recordid) = 0
    /\ recordid \in DOMAIN d.records[tid]

\* What the accounting assertions raise.  The message of the third is built
\* from self._size, which a Table does not have: when that assertion fails
\* the lookup raises instead.
NoCachedSize == "AssertionError: Record exists but has no cached size"
InvalidSize == "AssertionError: Invalid size"
InvalidDatastoreSize == "AttributeError: 'Table' object has no attribute '_size'"

\* Variant of _update_record_fields: a new record is not added to the
\* datastore's size.
_update_record_fields_uncounted(d, tid, recordid, fields, change_in_size) ==
    LET curr0 == _get_record_size(d, tid, recordid)
        is_new_record == curr0 = 0
        curr_size == curr0 + change_in_size
    IN IF _get_record_size_asserts(d, tid, recordid) THEN Raise(d, NoCachedSize)
       ELSE IF curr_size < 0 THEN Raise(d, InvalidSize)
       ELSE IF d.size + change_in_size < BASE_DATASTORE_SIZE THEN Raise(d, InvalidDatastoreSize)
       ELSE IF curr_size # 0
       THEN [d EXCEPT !.record_sizes[tid] = DictSet(@, recordid, curr_size),
                      !.records[tid] = DictSet(@, recordid, fields),
                      !.record_count = IF is_new_record THEN @ + 1 ELSE @,
                      !.size = IF is_new_record THEN @ ELSE @ + change_in_size]
       ELSE IF recordid \notin DOMAIN d.record_sizes[tid] THEN Raise(d, "KeyError")
       ELSE IF recordid \notin DOMAIN d.records[tid]
       THEN Raise([d EXCEPT !.record_sizes[tid] = DictDel(@, recordid)], "KeyError")
       ELSE [d EXCEPT !.record_sizes[tid] = DictDel(@, recordid),
                      !.records[tid] = DictDel(@, recordid),
                      !.record_count = @ - 1,
                      !.size = @ + change_in_size]

\* Variant of _update_record_fields: deleting a record leaves its cached
\* size in place.
_update_record_fields_stale(d, tid, recordid, fields, change_in_size) ==
    LET curr0 == _get_record_size(d, tid, recordid)
        is_new_record == curr0 = 0
        curr_size == curr0 + change_in_size
    IN IF _get_record_size_asserts(d, tid, recordid) THEN Raise(d, NoCachedSize)
       ELSE IF curr_size < 0 THEN Raise(d, InvalidSize)
       ELSE IF d.size + change_in_size < BASE_DATASTORE_SIZE THEN Raise(d, InvalidDatastoreSize)
       ELSE IF curr_size # 0
       THEN [d EXCEPT !.record_sizes[tid] = DictSet(@, recordid, curr_size),
                      !.records[tid] = DictSet(@, recordid, fields),
                      !.record_count = IF is_new_record THEN @ + 1 ELSE @,
                      !.size = @ + change_in_size]
       ELSE IF recordid \notin DOMAIN d.record_sizes[tid] THEN Raise(d, "KeyError")
       ELSE IF recordid \notin DOMAIN d.records[tid]
       THEN Raise([d EXCEPT !.record_sizes[tid] = DictDel(@, recordid)], "KeyError")
       ELSE [d EXCEPT !.records[tid] = DictDel(@, recordid),
                      !.record_count = @ - 1,
                      !.size = @ + change_in_size]

\* Table._update_record_fields; fields = None deletes the record.
_update_record_fields(d, tid, recordid, fields, change_in_size) ==
    LET curr0 == _get_record_size(d, tid, recordid)
        is_new_record == curr0 = 0
        curr_size == curr0 + change_in_size
    IN IF _get_record_size_asserts(d, tid, recordid) THEN Raise(d, NoCachedSize)
       ELSE IF curr_size < 0 THEN Raise(d, InvalidSize)
       ELSE IF d.size + change_in_size < BASE_DATASTORE_SIZE THEN Raise(d, InvalidDatastoreSize)
       ELSE IF curr_size # 0
       THEN [d EXCEPT !.record_sizes[tid] = DictSet(@, recordid, curr_size),
                      !.records[tid] = DictSet(@, recordid, fields),
                      !.record_count = IF is_new_record THEN @ + 1 ELSE @,
                      !.size = @ + change_in_size]
       ELSE IF recordid \notin DOMAIN d.record_sizes[tid] THEN Raise(d, "KeyError")
       ELSE IF recordid \notin DOMAIN d.records[tid]
       THEN Raise([d EXCEPT !.record_sizes[tid] = DictDel(@, recordid)], "KeyError")
       ELSE [d EXCEPT !.record_sizes[tid] = DictDel(@, recordid),
                      !.records[tid] = DictDel(@, recordid),
                      !.record_count = @ - 1,
                      !.size = @ + change_in_size]

\* Record.get_size.
Record_get_size(d, tid, recordid) ==
    IF _get_record_size_asserts(d, tid, recordid) THEN [exc |-> NoCachedSize, rv |-> 0]
    ELSE [exc |-> "none", rv |-> _get_record_size(d, tid, recordid)]

\* ---------------------------------------------------------------- Table
\* The exception the argument checks of _insert_with_id raise, if any.
InsertArgError(fields) ==
    IF \E f \in DOMAIN fields : ~Record_is_valid_field(f) THEN "ValueError"
    ELSE IF \E f \in DOMAIN fields : fields[f] = None \/ ~_typecheck_value_ok(fields[f])
    THEN "TypeError"
    ELSE "none"

_insert_with_id(d, tid, recordid, fields) ==
    LET d1 == _check_edit_permission(d)
        value_size == SumOver([f \in DOMAIN fields |-> _compute_field_size(fields[f])],
                              DOMAIN fields)
    IN IF Failed(d1) THEN d1
       ELSE IF InsertArgError(fields) # "none" THEN Raise(d1, InsertArgError(fields))
       ELSE _update_record_fields(
                _add_pending_change(d1, _Change("I", tid, recordid, fields, None)),
                tid, recordid, fields, BASE_RECORD_SIZE + value_size)

get_or_insert(d, tid, recordid, fields) ==
    IF recordid \in DOMAIN d.records[tid] THEN d
    ELSE _insert_with_id(d, tid, recordid, fields)

\* The exception the argument checks of Table.query raise, if any (the
\* inputs never hold both an invalid name and a bad type).
QueryArgError(kwds) ==
    IF \E f \in DOMAIN kwds : ~Record_is_valid_field(f) THEN "ValueError"
    ELSE IF \E f \in DOMAIN kwds : ~_typecheck_value_ok(kwds[f]) THEN "TypeError"
    ELSE "none"

\* The body of the inner loop of Table.query: the filter (field, value)
\* lets the record with these fields through.
QueryFilterPasses(fields, field, value) ==
    /\ field \in DOMAIN fields
    /\ PyEq(fields[field], value)
    /\ \/ fields[field].t = value.t
       \/ {fields[field].t, value.t} \subseteq {"int", "float"}

\* Table.query(**kwds): the exception raised, and the ids of the records
\* returned.
Table_query(d, tid, kwds) ==
    IF QueryArgError(kwds) # "none" THEN [exc |-> QueryArgError(kwds), rv |-> {}]
    ELSE [exc |-> "none",
          rv |-> {recordid \in DOMAIN d.records[tid] :
                    \A field \in DOMAIN kwds :
                        QueryFilterPasses(d.records[tid][recordid], field, kwds[field])}]

\* ---------------------------------------------------------------- Record
\* One iteration of the loop of Record.update over kwds.
UpdateField(acc, field, value) ==
    LET old_value == DictGet(acc.fields, field) IN
    IF ~Record_is_valid_field(field) THEN [acc EXCEPT !.exc = "ValueError"]
    ELSE IF value = None
    THEN IF Truthy(old_value)
         THEN [acc EXCEPT !.undo = DictSet(@, field, old_value),
                          !.old_size = @ + _compute_field_size(old_value),
                          !.fields = DictDel(@, field),
                          !.data = DictSet(@, field, ValueDelete)]
         ELSE acc
    ELSE IF ~_typecheck_value_ok(value) THEN [acc EXCEPT !.exc = "TypeError"]
    ELSE [acc EXCEPT !.undo = DictSet(@, field, old_value),
                     !.old_size = @ + _compute_field_size(old_value),
                     !.fields = DictSet(@, field, value),
                     !.new_size = @ + _compute_field_size(value),
                     !.data = DictSet(@, field, ValuePut(value))]

RECURSIVE UpdateLoop(_, _, _)
UpdateLoop(acc, kwds, S) ==
    IF S = {} \/ acc.exc # "none" THEN acc
    ELSE LET field == CHOOSE x \in S : TRUE
         IN UpdateLoop(UpdateField(acc, field, kwds[field]), kwds, S \ {field})

\* Variant of UpdateStage: a failing update keeps the fields it had set
\* before the failure.
UpdateStage_partial(d, tid, recordid, acc) ==
    IF acc.exc # "none"
    THEN Raise(_update_record_fields(d, tid, recordid, acc.fields,
                                     acc.new_size - acc.old_size), acc.exc)
    ELSE IF DOMAIN acc.data = {} THEN d
    ELSE _update_record_fields(
             _add_pending_change(d, _Change("U", tid, recordid, acc.data, acc.undo)),
             tid, recordid, acc.fields, acc.new_size - acc.old_size)

\* The end of Record.update, acc being what its loop has gathered.
UpdateStage(d, tid, recordid, acc) ==
    IF acc.exc # "none" THEN Raise(d, acc.exc)
    ELSE IF DOMAIN acc.data = {} THEN d
    ELSE _update_record_fields(
             _add_pending_change(d, _Change("U", tid, recordid, acc.data, acc.undo)),
             tid, recordid, acc.fields, acc.new_size - acc.old_size)

Record_update(d, tid, recordid, kwds) ==
    IF Failed(_check_edit_permission(d)) THEN _check_edit_permission(d)
    ELSE IF recordid \notin DOMAIN d.records[tid] THEN Raise(d, "DatastoreError")
    ELSE UpdateStage(d, tid, recordid,
                     UpdateLoop([fields |-> d.records[tid][recordid],
                                 data |-> EmptyDict, undo |-> EmptyDict,
                                 old_size |-> 0, new_size |-> 0, exc |-> "none"],
                                kwds, DOMAIN kwds))

\* Record.get_fields: a copy of the fields, empty for a deleted record.
Record_get_fields(d, tid, recordid) ==
    IF recordid \notin DOMAIN d.records[tid] THEN EmptyDict
    ELSE d.records[tid][recordid]

\* Variant of delete_record: deleting a deleted record stages another
\* Delete change.
delete_record_again(d, tid, recordid) ==
    LET d1 == _check_edit_permission(d) IN
    IF Failed(d1) THEN d1
    ELSE IF recordid \notin DOMAIN d1.records[tid]
    THEN _add_pending_change(d1, _Change("D", tid, recordid, None, EmptyDict))
    ELSE LET d2 == _add_pending_change(
                       d1, _Change("D", tid, recordid, None, d1.records[tid][recordid]))
         IN _update_record_fields(d2, tid, recordid, None,
                                  -_get_record_size(d2, tid, recordid))

delete_record(d, tid, recordid) ==
    LET d1 == _check_edit_permission(d) IN
    IF Failed(d1) THEN d1
    ELSE IF recordid \notin DOMAIN d1.records[tid] THEN d1
    ELSE LET d2 == _add_pending_change(
                       d1, _Change("D", tid, recordid, None, d1.records[tid][recordid]))
         IN _update_record_fields(d2, tid, recordid, None,
                                  -_get_record_size(d2, tid, recordid))

get_or_create_list(d, tid, recordid, field) ==
    IF recordid \notin DOMAIN d.records[tid] THEN Raise(d, "DatastoreError")
    ELSE LET fields == d.records[tid][recordid]
             v == DictGet(fields, field)
         IN IF IsTuple(v) THEN d
            ELSE IF v # None THEN Raise(d, "TypeError")
            ELSE IF ~Record_is_valid_field(field) THEN Raise(d, "ValueError")
            ELSE LET d1 == _check_edit_permission(d) IN
                 IF Failed(d1) THEN d1
                 ELSE _update_record_fields(
                          _add_pending_change(
                              d1, _Change("U", tid, recordid,
                                          (field :> _make_list_create), (field :> None))),
                          tid, recordid, DictSet(fields, field, ListV(<<>>)),
                          BASE_FIELD_SIZE)

\* ---------------------------------------------------------------- List
\* List._check raises TypeError exactly when this is false.
List_check_ok(d, tid, recordid, field) ==
    /\ recordid \in DOMAIN d.records[tid]
    /\ IsTuple(DictGet(d.records[tid][recordid], field))

\* Variant of List_update: the role of the user is not looked at.
List_update_unchecked(d, tid, recordid, field, v, op) ==
    LET fields == d.records[tid][recordid]
        old_v == DictGet(fields, field)
    IN _update_record_fields(
           _add_pending_change(
               d, _Change("U", tid, recordid, (field :> op), (field :> old_v))),
           tid, recordid, DictSet(fields, field, ListV(v)),
           _compute_value_size(ListV(v)) - _compute_value_size(old_v))

\* List._update(v, op), v the new tuple.
List_update(d, tid, recordid, field, v, op) ==
    LET d1 == _check_edit_permission(d) IN
    IF Failed(d1) THEN d1
    ELSE LET fields == d1.records[tid][recordid]
             old_v == DictGet(fields, field)
         IN _update_record_fields(
                _add_pending_change(
                    d1, _Change("U", tid, recordid, (field :> op), (field :> old_v))),
                tid, recordid, DictSet(fields, field, ListV(v)),
                _compute_value_size(ListV(v)) - _compute_value_size(old_v))

\* The tuple behind a checked List handle.
ListItems(d, tid, recordid, field) == d.records[tid][recordid][field].items

\* Variant of List_insert: an index that resolves outside [0, len] raises
\* IndexError.
List_insert_strict(d, tid, recordid, field, index, value) ==
    IF ~_typecheck_atom_ok(value) THEN Raise(d, "TypeError")
    ELSE IF ~List_check_ok(d, tid, recordid, field) THEN Raise(d, "TypeError")
    ELSE LET v == ListItems(d, tid, recordid, field)
             i == IF index < 0 THEN index + Len(v) ELSE index
         IN IF ~(0 <= i /\ i <= Len(v)) THEN Raise(d, "IndexError")
            ELSE List_update(d, tid, recordid, field,
                             PySlice(v, 0, i) \o <<value>> \o PySliceFrom(v, i),
                             _make_list_insert(i, value))

\* Variant of List_setitem: a negative index below -len counts as 0.
List_setitem_lenient(d, tid, recordid, field, index, value) ==
    IF ~_typecheck_atom_ok(value) THEN Raise(d, "TypeError")
    ELSE IF ~List_check_ok(d, tid, recordid, field) THEN Raise(d, "TypeError")
    ELSE LET v == ListItems(d, tid, recordid, field)
             j == IF index < 0 THEN index + Len(v) ELSE index
             i == IF j < 0 THEN 0 ELSE j
         IN IF ~(0 <= i /\ i < Len(v)) THEN Raise(d, "IndexError")
            ELSE List_update(d, tid, recordid, field,
                             PySlice(v, 0, i) \o <<value>> \o PySliceFrom(v, i + 1),
                             _make_list_put(i, value))

List_setitem(d, tid, recordid, field, index, value) ==
    IF ~_typecheck_atom_ok(value) THEN Raise(d, "TypeError")
    ELSE IF ~List_check_ok(d, tid, recordid, field) THEN Raise(d, "TypeError")
    ELSE LET v == ListItems(d, tid, recordid, field)
             i == IF index < 0 THEN index + Len(v) ELSE index
         IN IF ~(0 <= i /\ i < Len(v)) THEN Raise(d, "IndexError")
            ELSE List_update(d, tid, recordid, field,
                             PySlice(v, 0, i) \o <<value>> \o PySliceFrom(v, i + 1),
                             _make_list_put(i, value))

List_delitem(d, tid, recordid, field, index) ==
    IF ~List_check_ok(d, tid, recordid, field) THEN Raise(d, "TypeError")
    ELSE LET v == ListItems(d, tid, recordid, field)
             i == IF index < 0 THEN index + Len(v) ELSE index
         IN IF ~(0 <= i /\ i < Len(v)) THEN Raise(d, "IndexError")
            ELSE List_update(d, tid, recordid, field,
                             PySlice(v, 0, i) \o PySliceFrom(v, i + 1),
                             _make_list_delete(i))

List_insert(d, tid, recordid, field, index, value) ==
    IF ~_typecheck_atom_ok(value) THEN Raise(d, "TypeError")
    ELSE IF ~List_check_ok(d, tid, recordid, field) THEN Raise(d, "TypeError")
    ELSE LET v == ListItems(d, tid, recordid, field)
             n == Len(v)
             i == IF index < 0
                  THEN (IF index + n < 0 THEN 0 ELSE index + n)
                  ELSE (IF index > n THEN n ELSE index)
         IN List_update(d, tid, recordid, field,
                        PySlice(v, 0, i) \o <<value>> \o PySliceFrom(v, i),
                        _make_list_insert(i, value))

List_append(d, tid, recordid, field, value) ==
    IF ~_typecheck_atom_ok(value) THEN Raise(d, "TypeError")
    ELSE IF ~List_check_ok(d, tid, recordid, field) THEN Raise(d, "TypeError")
    ELSE LET v == ListItems(d, tid, recordid, field)
         IN List_update(d, tid, recordid, field, v \o <<value>>,
                        _make_list_insert(Len(v), value))

\* Variant of List_extend: the items are added by one change.
List_extend_bulk(d, tid, recordid, field, values) ==
    IF values = <<>> THEN d
    ELSE IF \E i \in 1..Len(values) : ~_typecheck_atom_ok(values[i])
    THEN Raise(d, "TypeError")
    ELSE IF ~List_check_ok(d, tid, recordid, field) THEN Raise(d, "TypeError")
    ELSE List_update(d, tid, recordid, field,
                     ListItems(d, tid, recordid, field) \o values,
                     _make_list_insert(Len(ListItems(d, tid, recordid, field)),
                                       values[1]))

\* MutableSequence.extend, which List inherits: append(v) for each v.
RECURSIVE List_extend(_, _, _, _, _)
List_extend(d, tid, recordid, field, values) ==
    IF values = <<>> \/ Failed(d) THEN d
    ELSE List_extend(List_append(d, tid, recordid, field, Head(values)),
                     tid, recordid, field, Tail(values))

\* Variant of List_len: a handle whose field is gone has length 0.
List_len_stale(d, tid, recordid, field) ==
    IF ~List_check_ok(d, tid, recordid, field) THEN [exc |-> "none", rv |-> 0]
    ELSE [exc |-> "none", rv |-> Len(ListItems(d, tid, recordid, field))]

\* List.__len__, __iter__ and __getitem__: the exception raised and the
\* value returned (tuple(handle) for __iter__).
List_len(d, tid, recordid, field) ==
    IF ~List_check_ok(d, tid, recordid, field) THEN [exc |-> "TypeError", rv |-> 0]
    ELSE [exc |-> "none", rv |-> Len(ListItems(d, tid, recordid, field))]

List_iter(d, tid, recordid, field) ==
    IF ~List_check_ok(d, tid, recordid, field) THEN [exc |-> "TypeError", rv |-> 0]
    ELSE [exc |-> "none", rv |-> ListItems(d, tid, recordid, field)]

List_getitem(d, tid, recordid, field, index) ==
    IF ~List_check_ok(d, tid, recordid, field) THEN [exc |-> "TypeError", rv |-> 0]
    ELSE LET v == ListItems(d, tid, recordid, field)
             i == IF index < 0 THEN index + Len(v) ELSE index
         IN IF ~(0 <= i /\ i < Len(v)) THEN [exc |-> "IndexError", rv |-> 0]
            ELSE [exc |-> "none", rv |-> v[i + 1]]

\* MutableSequence.pop, which List inherits: v = self[index]; del self[index].
List_pop(d, tid, recordid, field, index) ==
    IF List_getitem(d, tid, recordid, field, index).exc # "none"
    THEN Raise(d, List_getitem(d, tid, recordid, field, index).exc)
    ELSE List_delitem(d, tid, recordid, field, index)

List_move(d, tid, recordid, field, index, newindex) ==
    IF ~List_check_ok(d, tid, recordid, field) THEN Raise(d, "TypeError")
    ELSE LET v == ListItems(d, tid, recordid, field)
             n == Len(v)
             i == IF index < 0 THEN index + n ELSE index
             j == IF newindex < 0 THEN newindex + n ELSE newindex
         IN IF ~(0 <= i /\ i < n) THEN Raise(d, "IndexError")
            ELSE IF ~(0 <= j /\ j < n) THEN Raise(d, "IndexError")
            ELSE List_update(d, tid, recordid, field, _list_move(v, i, j),
                             _make_list_move(i, j))

\* ---------------------------------------------------------------- applying changes
\* Datastore._apply_listop: [ok, v]; ok is false where an assert fires.
_apply_listop(oldval, val) ==
    IF val.o = "LC"
    THEN [ok |-> oldval = None \/ oldval = ListV(<<>>), v |-> ListV(<<>>)]
    ELSE IF ~IsTuple(oldval) THEN [ok |-> FALSE, v |-> None]
    ELSE LET old == oldval.items IN
         CASE val.o = "LP" ->
                [ok |-> TRUE,
                 v |-> ListV(PySlice(old, 0, val.i) \o <<val.v>> \o PySliceFrom(old, val.i + 1))]
           [] val.o = "LI" ->
                [ok |-> TRUE,
                 v |-> ListV(PySlice(old, 0, val.i) \o <<val.v>> \o PySliceFrom(old, val.i))]
           [] val.o = "LD" ->
                [ok |-> TRUE,
                 v |-> ListV(PySlice(old, 0, val.i) \o PySliceFrom(old, val.i + 1))]
           [] OTHER -> [ok |-> TRUE, v |-> ListV(_list_move(old, val.i, val.j))]

\* One iteration of the UPDATE loop of Datastore._apply_change.
ApplyFieldOp(acc, field, val) ==
    LET old_value == DictGet(acc.fields, field)
        acc1 == [acc EXCEPT !.old_size = @ + _compute_field_size(old_value)]
    IN CASE val.o = "P" ->
              [acc1 EXCEPT !.fields = DictSet(@, field, val.v),
                           !.new_size = @ + _compute_field_size(val.v)]
         [] val.o = "D" ->
              IF field \in DOMAIN acc1.fields
              THEN [acc1 EXCEPT !.fields = DictDel(@, field)]
              ELSE [acc1 EXCEPT !.exc = "KeyError"]
         [] OTHER ->
              LET r == _apply_listop(old_value, val) IN
              IF ~r.ok THEN [acc1 EXCEPT !.exc = "AssertionError"]
              ELSE [acc1 EXCEPT !.fields = DictSet(@, field, r.v),
                                !.new_size = @ + _compute_field_size(r.v)]

RECURSIVE ApplyLoop(_, _, _)
ApplyLoop(acc, data, S) ==
    IF S = {} \/ acc.exc # "none" THEN acc
    ELSE LET field == CHOOSE x \in S : TRUE
         IN ApplyLoop(ApplyFieldOp(acc, field, data[field]), data, S \ {field})

\* The end of the UPDATE branch of _apply_change.
ApplyUpdate(d, tid, recordid, acc) ==
    IF acc.exc # "none" THEN Raise(d, acc.exc)
    ELSE _update_record_fields(d, tid, recordid, acc.fields, acc.new_size - acc.old_size)

_apply_change(d, change) ==
    LET tid == change.tid
        recordid == change.recordid
        present == recordid \in DOMAIN d.records[tid]
    IN CASE change.op = "I" ->
              IF present THEN Raise(d, "AssertionError")
              ELSE _update_record_fields(d, tid, recordid, change.data,
                                         _compute_record_size_for_fields(change.data))
         [] change.op = "D" ->
              IF ~present THEN Raise(d, "AttributeError")
              ELSE _update_record_fields(
                       d, tid, recordid, None,
                       -_compute_record_size_for_fields(d.records[tid][recordid]))
         [] OTHER ->
              IF ~present THEN Raise(d, "KeyError")
              ELSE ApplyUpdate(d, tid, recordid,
                               ApplyLoop([fields |-> d.records[tid][recordid],
                                          old_size |-> 0, new_size |-> 0, exc |-> "none"],
                                         change.data, DOMAIN change.data))

\* Variant of rollback: the revision is rewound along with the queue.
rollback_rewind(d) == [d EXCEPT !.changes = <<>>, !.rev = 0]

\* Variant of rollback: the queue is dropped, the records stay as they are.
rollback_drop(d) == [d EXCEPT !.changes = <<>>]

\* Datastore.rollback: pop, invert, apply, until the queue is empty.
RECURSIVE rollback(_)

\* One round of the loop of rollback: d has lost its last change, inv is
\* that change inverted.
RollbackChange(d, inv) ==
    IF ~inv.ok THEN Raise(d, "AssertionError")
    ELSE rollback(_apply_change(d, inv.change))

rollback(d) ==
    IF d.changes = <<>> \/ Failed(d) THEN d
    ELSE RollbackChange([d EXCEPT !.changes = SubSeq(@, 1, Len(@) - 1)],
                        _Change_invert(d.changes[Len(d.changes)]))

\* ---------------------------------------------------------------- wire form
Digit == <<"0", "1", "2", "3", "4", "5", "6", "7", "8", "9">>

\* str(n) and int(s) for decimal strings, a string being the tuple of its characters.
RECURSIVE NatToStr(_)
NatToStr(n) == IF n < 10 THEN <<Digit[n + 1]>> ELSE NatToStr(n \div 10) \o <<Digit[(n % 10) + 1]>>

IntToStr(n) == IF n < 0 THEN <<"-">> \o NatToStr(-n) ELSE NatToStr(n)

DigitVal(c) == (CHOOSE i \in 1..10 : Digit[i] = c) - 1

RECURSIVE StrToNat(_)
StrToNat(s) ==
    IF s = <<>> THEN 0 ELSE StrToNat(SubSeq(s, 1, Len(s) - 1)) * 10 + DigitVal(s[Len(s)])

StrToInt(s) == IF Head(s) = "-" THEN -StrToNat(Tail(s)) ELSE StrToNat(s)

\* A Date holds _timestamp = int(timestamp*1000.0) / 1000.0, a double; DateV(n)
\* is the Date whose _timestamp is the double nearest n/1000.  LossyMs are the
\* n up to MaxMs for which that double times 1000 is a double below n, so
\* that int() of it is n - 1: the odd n of 1001..1023 and the n of
\* 2002..2046 that are 2 modulo 4.
MaxMs == 2047
LossyMs ==
    {n \in 1001..1023 : n % 2 = 1} \cup {n \in 2002..2046 : n % 4 = 2}

\* int((n/1000.0) * 1000.0) in double arithmetic, for n in 0..MaxMs.
MsTrunc(n) == IF n \in LossyMs THEN n - 1 ELSE n

\* Date.to_json: {'T': str(int(self._timestamp * 1000))}
Date_to_json(v) == [j |-> "T", digits |-> IntToStr(MsTrunc(v.n))]

\* Date.from_json: cls(int(j['T']) / 1000.0), and Date.__init__ truncates.
Date_from_json(w) == DateV(MsTrunc(StrToInt(w.digits)))

\* What json.dumps writes for an item of a tuple that _value_to_json returned
\* unchanged, and what json.loads reads back.
JsonPlain(v) ==
    CASE v.t = "int" -> [j |-> "num", n |-> v.n, isint |-> TRUE]
      [] v.t = "float" /\ "sp" \in DOMAIN v -> [j |-> "const", sym |-> v.sp]
      [] v.t = "float" -> [j |-> "num", n |-> v.n, isint |-> FALSE]
      [] v.t = "bool" -> [j |-> "bool", n |-> v.n]
      [] v.t = "str" -> [j |-> "str", n |-> v.n]
      [] OTHER -> [j |-> "unserializable"]

_value_to_json(v) ==
    CASE v.t = "int" -> [j |-> "I", digits |-> IntToStr(v.n)]
      [] v.t = "float" /\ "sp" \in DOMAIN v -> [j |-> "N", sym |-> v.sp]
      [] v.t = "float" -> [j |-> "num", n |-> v.n, isint |-> FALSE]
      [] v.t = "date" -> Date_to_json(v)
      [] v.t = "bytes" -> [j |-> "B", n |-> v.n]
      [] v.t = "bool" -> [j |-> "bool", n |-> v.n]
      [] v.t = "str" -> [j |-> "str", n |-> v.n]
      [] OTHER -> [j |-> "array", items |-> [i \in 1..Len(v.items) |-> JsonPlain(v.items[i])]]

\* json.loads of an array item that _value_from_json returns unchanged.
PyPlain(w) ==
    CASE w.j = "num" -> IF w.isint THEN IntV(w.n) ELSE FloatV(w.n)
      [] w.j = "bool" -> BoolV(w.n)
      [] w.j = "str" -> StrV(w.n)
      [] w.j = "const" -> SpecialFloatV(w.sym)
      [] OTHER -> ObjV

_value_from_json(w) ==
    CASE w.j = "num" -> FloatV(w.n)
      [] w.j = "I" -> IntV(StrToInt(w.digits))
      [] w.j = "N" -> SpecialFloatV(w.sym)
      [] w.j = "T" -> Date_from_json(w)
      [] w.j = "B" -> BytesV(w.n)
      [] w.j = "bool" -> BoolV(w.n)
      [] w.j = "str" -> StrV(w.n)
      [] OTHER -> [t |-> "pylist", items |-> [i \in 1..Len(w.items) |-> PyPlain(w.items[i])]]

_op_to_json(val) ==
    IF val.o \in {"P", "LP", "LI"} THEN [val EXCEPT !.v = _value_to_json(@)] ELSE val

_op_from_json(val) ==
    IF val.o \in {"P", "LP", "LI"} THEN [val EXCEPT !.v = _value_from_json(@)] ELSE val

\* _Change.to_json: the undo data is never serialized.
_Change_to_json(ch) ==
    CASE ch.op = "I" ->
            [op |-> "I", tid |-> ch.tid, recordid |-> ch.recordid,
             data |-> [k \in DOMAIN ch.data |-> _value_to_json(ch.data[k])]]
      [] ch.op = "U" ->
            [op |-> "U", tid |-> ch.tid, recordid |-> ch.recordid,
             data |-> [k \in DOMAIN ch.data |-> _op_to_json(ch.data[k])]]
      [] OTHER -> [op |-> "D", tid |-> ch.tid, recordid |-> ch.recordid]

_Change_from_json(val) ==
    CASE val.op = "I" ->
            _Change("I", val.tid, val.recordid,
                    [k \in DOMAIN val.data |-> _value_from_json(val.data[k])], None)
      [] val.op = "U" ->
            _Change("U", val.tid, val.recordid,
                    [k \in DOMAIN val.data |-> _op_from_json(val.data[k])], None)
      [] OTHER -> _Change("D", val.tid, val.recordid, None, None)

\* json.dumps(changes) in put_delta raises TypeError exactly when this is false.
JsonSerializable(w) ==
    w.j = "array" => \A i \in 1..Len(w.items) : w.items[i].j # "unserializable"

ChangeSerializable(wch) ==
    CASE wch.op = "I" -> \A k \in DOMAIN wch.data : JsonSerializable(wch.data[k])
      [] wch.op = "U" ->
            \A k \in DOMAIN wch.data :
                wch.data[k].o \in {"P", "LP", "LI"} => JsonSerializable(wch.data[k].v)
      [] OTHER -> TRUE

\* ---------------------------------------------------------------- server
\* The server keeps the log of accepted deltas; its revision is the length
\* of the log.  fault = "notfound" is a server that answers {notfound: ...}.
Faults == {"ok", "notfound"}

put_delta(log, rev, changes, fault) ==
    IF fault = "notfound" THEN [exc |-> "DatastoreNotFoundError", log |-> log, rev |-> rev]
    ELSE IF rev # Len(log) THEN [exc |-> "DatastoreConflictError", log |-> log, rev |-> rev]
    ELSE [exc |-> "none",
          log |-> Append(log, [rev |-> rev, changes |-> changes]),
          rev |-> rev + 1]

\* The deltas from revision rev on; none leaves the response empty (deltas = None).
get_deltas(log, rev, fault) ==
    IF fault = "notfound" THEN [exc |-> "DatastoreNotFoundError", deltas |-> <<>>]
    ELSE [exc |-> "none", deltas |-> PySliceFrom(log, rev)]

\* ---------------------------------------------------------------- deltas
RECURSIVE ApplyChanges(_, _)
ApplyChanges(d, changes) ==
    IF changes = <<>> \/ Failed(d) THEN d
    ELSE ApplyChanges(_apply_change(d, _Change_from_json(Head(changes))), Tail(changes))

\* The loop of apply_deltas.
RECURSIVE ApplyDeltasLoop(_, _)

\* Variant of ApplyDeltaDone: the revision is left where it was.
ApplyDeltaDone_same(d, rev, rest) ==
    IF Failed(d) THEN d ELSE ApplyDeltasLoop(d, rest)

\* The end of one round: d has the changes of the delta of revision rev.
ApplyDeltaDone(d, rev, rest) ==
    IF Failed(d) THEN d ELSE ApplyDeltasLoop([d EXCEPT !.rev = rev + 1], rest)

\* Variant of ApplyDeltasLoop: a delta below the revision is out of sequence
\* like one above it.
ApplyDeltasLoop_noskip(d, deltas) ==
    IF deltas = <<>> \/ Failed(d) THEN d
    ELSE IF Head(deltas).rev # d.rev THEN Raise(d, "DatastoreError")
    ELSE ApplyDeltaDone(ApplyChanges(d, Head(deltas).changes), Head(deltas).rev, Tail(deltas))

ApplyDeltasLoop(d, deltas) ==
    IF deltas = <<>> \/ Failed(d) THEN d
    ELSE IF Head(deltas).rev < d.rev THEN ApplyDeltasLoop(d, Tail(deltas))
    ELSE IF Head(deltas).rev # d.rev THEN Raise(d, "DatastoreError")
    ELSE ApplyDeltaDone(ApplyChanges(d, Head(deltas).changes), Head(deltas).rev, Tail(deltas))

apply_deltas(d, deltas) ==
    IF d.changes # <<>> THEN Raise(d, "DatastoreError")
    ELSE ApplyDeltasLoop(d, deltas)

\* Variant of load_deltas: the pending queue is not looked at.
load_deltas_unguarded(d, log, fault) ==
    IF get_deltas(log, d.rev, fault).exc # "none"
    THEN [d |-> Raise(d, get_deltas(log, d.rev, fault).exc), net |-> TRUE]
    ELSE [d |-> ApplyDeltasLoop(d, get_deltas(log, d.rev, fault).deltas), net |-> TRUE]

\* [d, net]: net tells whether the server was contacted.
load_deltas(d, log, fault) ==
    IF d.changes # <<>> THEN [d |-> Raise(d, "DatastoreError"), net |-> FALSE]
    ELSE LET resp == get_deltas(log, d.rev, fault) IN
         IF resp.exc # "none" THEN [d |-> Raise(d, resp.exc), net |-> TRUE]
         ELSE [d |-> apply_deltas(d, resp.deltas), net |-> TRUE]

\* The long poll answers with the deltas from the cursor on, or with nothing
\* when it times out.
await_deltas(d, log, fault) ==
    IF d.changes # <<>> THEN [d |-> Raise(d, "DatastoreError"), net |-> FALSE]
    ELSE LET resp == get_deltas(log, d.rev, fault) IN
         IF resp.exc # "none" THEN [d |-> Raise(d, resp.exc), net |-> TRUE]
         ELSE IF resp.deltas = <<>> THEN [d |-> d, net |-> TRUE]
         ELSE [d |-> apply_deltas(d, resp.deltas), net |-> TRUE]

\* ---------------------------------------------------------------- commit
\* Record.set on the info record that get_or_insert returned.
InfoRecordSet(d, field, value) ==
    IF Failed(d) THEN d ELSE Record_update(d, ":info", "info", (field :> value))

_set_info_field(d, field, value) ==
    InfoRecordSet(get_or_insert(d, ":info", "info", EmptyDict), field, value)

\* Datastore.set_title: the title is a string (basestring) or None.
set_title(d, title) ==
    IF title # None /\ title.t # "str" THEN Raise(d, "TypeError")
    ELSE _set_info_field(d, "title", title)

\* ---------------------------------------------------------------- sharing
\* Variant of _make_role: a code that is not the code of a known role is no
\* role at all.
_make_role_exact(irole) ==
    IF irole = None THEN [exc |-> "none", rv |-> "owner"]
    ELSE IF irole.t \notin {"int", "bool"} THEN [exc |-> "TypeError", rv |-> ""]
    ELSE [exc |-> "none",
          rv |-> IF irole.n = ROLE_OWNER THEN "owner"
                 ELSE IF irole.n = ROLE_EDITOR THEN "editor"
                 ELSE IF irole.n = ROLE_VIEWER THEN "viewer"
                 ELSE "none"]

\* _make_role(irole): the exception raised and the role returned.  bool is
\* a subclass of int.
_make_role(irole) ==
    IF irole = None THEN [exc |-> "none", rv |-> "owner"]
    ELSE IF irole.t \notin {"int", "bool"} THEN [exc |-> "TypeError", rv |-> ""]
    ELSE [exc |-> "none",
          rv |-> IF irole.n >= ROLE_OWNER THEN "owner"
                 ELSE IF irole.n >= ROLE_EDITOR THEN "editor"
                 ELSE IF irole.n >= ROLE_VIEWER THEN "viewer"
                 ELSE "none"]

\* A role argument: a string, or something that is not a string.
RoleStr(s) == [t |-> "str", s |-> s]

\* _parse_role(role, owner_ok): the exception raised and the code returned.
_parse_role(role, owner_ok) ==
    IF role.t = "str" /\ role.s = "owner" /\ owner_ok
    THEN [exc |-> "none", rv |-> ROLE_OWNER]
    ELSE IF role.t = "str" /\ role.s = "editor" THEN [exc |-> "none", rv |-> ROLE_EDITOR]
    ELSE IF role.t = "str" /\ role.s = "viewer" THEN [exc |-> "none", rv |-> ROLE_VIEWER]
    ELSE IF role.t = "str" /\ role.s = "none" THEN [exc |-> "none", rv |-> ROLE_NONE]
    ELSE IF role.t # "str" THEN [exc |-> "TypeError", rv |-> 0]
    ELSE [exc |-> "ValueError", rv |-> 0]

get_effective_role(d) == IF d.shareable THEN d.role ELSE "owner"

is_writable(d) == d.role # "viewer"

\* A principal argument: Datastore.TEAM, Datastore.PUBLIC or a User, whose
\* key is the id of its ACL record, or something that is not a Principal.
Principal(key) == [isPrincipal |-> TRUE, key |-> key]
NotAPrincipal == [isPrincipal |-> FALSE, key |-> ""]

\* Variant of AclArgError: the principal is looked at first.
AclArgError_principal_first(d, principal) ==
    IF ~principal.isPrincipal THEN "TypeError"
    ELSE IF ~d.shareable THEN "DatastoreError"
    ELSE "none"

\* The exception _check_shareable and _check_principal raise, if any.
AclArgError(d, principal) ==
    IF ~d.shareable THEN "DatastoreError"
    ELSE IF ~principal.isPrincipal THEN "TypeError"
    ELSE "none"

\* The ids of ACL records that list_roles takes for a principal.
IsPrincipalKey(id) == id \in {"team", "public", "u42"}

\* Datastore.list_roles: the exception raised and the dict returned.
list_roles(d) ==
    IF ~d.shareable THEN [exc |-> "DatastoreError", rv |-> EmptyDict]
    ELSE IF \E id \in DOMAIN d.records[":acl"] :
                IsPrincipalKey(id)
                /\ _make_role(DictGet(d.records[":acl"][id], "role")).exc # "none"
    THEN [exc |-> "TypeError", rv |-> EmptyDict]
    ELSE [exc |-> "none",
          rv |-> [id \in {x \in DOMAIN d.records[":acl"] : IsPrincipalKey(x)} |->
                    _make_role(DictGet(d.records[":acl"][id], "role")).rv]]

\* Datastore.get_role: the exception raised and the role returned.
get_role(d, principal) ==
    IF AclArgError(d, principal) # "none"
    THEN [exc |-> AclArgError(d, principal), rv |-> ""]
    ELSE IF principal.key \notin DOMAIN d.records[":acl"]
    THEN [exc |-> "none", rv |-> "none"]
    ELSE _make_role(DictGet(d.records[":acl"][principal.key], "role"))

\* Variant of delete_role: a read-only datastore refuses the call.
delete_role_checked(d, principal) ==
    IF AclArgError(d, principal) # "none" THEN Raise(d, AclArgError(d, principal))
    ELSE IF Failed(_check_edit_permission(d)) THEN _check_edit_permission(d)
    ELSE IF principal.key \in DOMAIN d.records[":acl"]
    THEN delete_record(d, ":acl", principal.key)
    ELSE d

delete_role(d, principal) ==
    IF AclArgError(d, principal) # "none" THEN Raise(d, AclArgError(d, principal))
    ELSE IF principal.key \in DOMAIN d.records[":acl"]
    THEN delete_record(d, ":acl", principal.key)
    ELSE d

\* Variant of set_role: the owner role may be given.
set_role_owner_ok(d, principal, role) ==
    IF role.t = "str" /\ role.s = "none" THEN delete_role(d, principal)
    ELSE IF AclArgError(d, principal) # "none" THEN Raise(d, AclArgError(d, principal))
    ELSE IF _parse_role(role, TRUE).exc # "none" THEN Raise(d, _parse_role(role, TRUE).exc)
    ELSE IF principal.key \notin DOMAIN d.records[":acl"]
    THEN get_or_insert(d, ":acl", principal.key,
                       ("role" :> IntV(_parse_role(role, TRUE).rv)))
    ELSE Record_update(d, ":acl", principal.key,
                       ("role" :> IntV(_parse_role(role, TRUE).rv)))

set_role(d, principal, role) ==
    IF role.t = "str" /\ role.s = "none" THEN delete_role(d, principal)
    ELSE IF AclArgError(d, principal) # "none" THEN Raise(d, AclArgError(d, principal))
    ELSE IF _parse_role(role, FALSE).exc # "none" THEN Raise(d, _parse_role(role, FALSE).exc)
    ELSE IF principal.key \notin DOMAIN d.records[":acl"]
    THEN get_or_insert(d, ":acl", principal.key,
                       ("role" :> IntV(_parse_role(role, FALSE).rv)))
    ELSE Record_update(d, ":acl", principal.key,
                       ("role" :> IntV(_parse_role(role, FALSE).rv)))

\* now: what time.time() reads, in milliseconds.
_set_mtime(d, now) == _set_info_field(d, "mtime", DateV(now))

NoRequest == [rev |-> -1, changes |-> <<>>]

\* Variant of CommitReply: a refused delta is dropped from the queue.
CommitReply_discard(d, changes, resp) ==
    IF resp.exc # "none"
    THEN [d |-> Raise([d EXCEPT !.changes = <<>>], resp.exc), log |-> resp.log,
          req |-> [rev |-> d.rev, changes |-> changes]]
    ELSE [d |-> [d EXCEPT !.rev = resp.rev, !.changes = <<>>], log |-> resp.log,
          req |-> [rev |-> d.rev, changes |-> changes]]

\* commit() after put_delta answered resp.
CommitReply(d, changes, resp) ==
    IF resp.exc # "none"
    THEN [d |-> Raise(d, resp.exc), log |-> resp.log,
          req |-> [rev |-> d.rev, changes |-> changes]]
    ELSE [d |-> [d EXCEPT !.rev = resp.rev, !.changes = <<>>], log |-> resp.log,
          req |-> [rev |-> d.rev, changes |-> changes]]

\* commit() from put_delta on: changes is the queue in its wire form.
CommitPut(d, changes, log, fault) ==
    IF \E i \in 1..Len(changes) : ~ChangeSerializable(changes[i])
    THEN [d |-> Raise(d, "TypeError"), log |-> log, req |-> NoRequest]
    ELSE CommitReply(d, changes, put_delta(log, d.rev, changes, fault))

\* Variant of CommitChanges: the queue is sent last change first.
CommitChanges_reversed(d, log, fault) ==
    IF Failed(d) THEN [d |-> d, log |-> log, req |-> NoRequest]
    ELSE CommitPut(d, [i \in 1..Len(d.changes) |->
                          _Change_to_json(d.changes[Len(d.changes) + 1 - i])],
                   log, fault)

\* commit() after _set_mtime().
CommitChanges(d, log, fault) ==
    IF Failed(d) THEN [d |-> d, log |-> log, req |-> NoRequest]
    ELSE CommitPut(d, [i \in 1..Len(d.changes) |-> _Change_to_json(d.changes[i])], log, fault)

\* [d, log, req]: req is the put_delta request sent, NoRequest when none was.
commit(d, now, log, fault) ==
    IF Failed(_check_edit_permission(d))
    THEN [d |-> _check_edit_permission(d), log |-> log, req |-> NoRequest]
    ELSE IF d.changes = <<>> THEN [d |-> d, log |-> log, req |-> NoRequest]
    ELSE CommitChanges(_set_mtime(d, now), log, fault)

\* ---------------------------------------------------------------- snapshots
\* The rows of Datastore.get_snapshot for the records S of table tid.
RECURSIVE SnapshotRows(_, _, _)
SnapshotRows(d, tid, S) ==
    IF S = {} THEN <<>>
    ELSE LET recordid == CHOOSE x \in S : TRUE
         IN <<[tid |-> tid, rowid |-> recordid,
               data |-> [k \in DOMAIN d.records[tid][recordid] |->
                            _value_to_json(d.records[tid][recordid][k])]]>>
            \o SnapshotRows(d, tid, S \ {recordid})

Datastore_get_snapshot(d) ==
    SnapshotRows(d, "t1", DOMAIN d.records["t1"])
        \o SnapshotRows(d, ":info", DOMAIN d.records[":info"])
        \o SnapshotRows(d, ":acl", DOMAIN d.records[":acl"])

\* The server's answer to get_snapshot: its revision and its rows.
get_snapshot(log, fault) ==
    IF fault = "notfound" THEN [exc |-> "DatastoreNotFoundError", rev |-> 0, rows |-> <<>>]
    ELSE [exc |-> "none", rev |-> Len(log),
          rows |-> Datastore_get_snapshot(ApplyDeltasLoop(Datastore_init(FALSE, "owner"), log))]

\* Variant of ApplySnapshotReset: the pending queue is kept.
ApplySnapshotReset_keep(d) ==
    [d EXCEPT !.rev = 0,
              !.records = [tid \in Tids |-> EmptyDict],
              !.record_sizes = [tid \in Tids |-> EmptyDict]]

\* The first three assignments of apply_snapshot: the datastore's size and
\* record count are not among them.
ApplySnapshotReset(d) ==
    [d EXCEPT !.rev = 0,
              !.records = [tid \in Tids |-> EmptyDict],
              !.record_sizes = [tid \in Tids |-> EmptyDict],
              !.changes = <<>>]

SnapshotRowData(row) == [k \in DOMAIN row.data |-> _value_from_json(row.data[k])]

\* One round of the loop of apply_snapshot.
ApplySnapshotRow(d, row, data) ==
    _update_record_fields(d, row.tid, row.rowid, data, _compute_record_size_for_fields(data))

RECURSIVE ApplySnapshotLoop(_, _)
ApplySnapshotLoop(d, snapshot) ==
    IF snapshot = <<>> \/ Failed(d) THEN d
    ELSE ApplySnapshotLoop(ApplySnapshotRow(d, Head(snapshot), SnapshotRowData(Head(snapshot))),
                           Tail(snapshot))

ApplySnapshotDone(d, rev) == IF Failed(d) THEN d ELSE [d EXCEPT !.rev = rev]

apply_snapshot(d, rev, snapshot) ==
    ApplySnapshotDone(ApplySnapshotLoop(ApplySnapshotReset(d), snapshot), rev)

\* load_snapshot after the server answered resp.
LoadSnapshotReply(d, resp) ==
    IF resp.exc # "none" THEN Raise(d, resp.exc)
    ELSE apply_snapshot(d, resp.rev, resp.rows)

load_snapshot(d, log, fault) == LoadSnapshotReply(d, get_snapshot(log, fault))

\* ---------------------------------------------------------------- state
VARIABLES
    ds,        \* the Datastore object (with its Tables)
    slog,      \* the server's log of deltas for this datastore
    pc,        \* where transaction() stands: "idle" when no transaction runs
    txn,       \* transaction()'s locals: max_tries, the loop index, rv
    trace,     \* what the running (or last) transaction() has done, in order
    outcome,   \* the last call made on the datastore and how it ended
    clean,     \* records, sizes and revision when the queue was last empty
    awaited,   \* the deltas a background DatastoreManager.await() has fetched
    app        \* the tasks app: its lock table, its cache and its requests

vars == <<ds, slog, pc, txn, trace, outcome, clean, awaited, app>>

\* The tasks app serves up to MaxRequests requests at a time.  A token is a
\* number, NoToken for a session without access token; a Lock is named by
\* the request that created it, 0 standing for no lock and no request.
MaxRequests == 3
Requests == 1..MaxRequests
NoToken == 0
NewRequest ==
    [pc |-> "new", token |-> NoToken, refresh |-> FALSE, lock |-> 0, to_delete |-> 0,
     exc |-> "none"]

\* The app whose cache holds the datastores of the tokens in `cache`, oldest
\* first, and that serves no request: locks is the WeakValueDictionary,
\* meta the request holding meta_lock, holder[l] the request holding Lock l.
AppWith(cache) ==
    [locks |-> [x \in {} |-> 0], meta |-> 0, holder |-> [l \in Requests |-> 0],
     cache |-> cache, req |-> [r \in Requests |-> NewRequest]]

NoApp == AppWith(<<>>)

\* No batch of deltas is waiting to be applied.
NoBatch == [state |-> "none", cursor |-> 0, deltas |-> <<>>]

\* op(arg) was called with `pending` changes staged; it raised exc ("none"
\* when it returned, rv being what it returned), net tells whether it
\* contacted the server, req is the put_delta request it sent, msg the
\* message of the DatastoreError transaction() gives up with.
Out(op, arg, exc, net, req, rv, msg) ==
    [op |-> op, arg |-> arg, pending |-> Len(ds.changes), exc |-> exc,
     net |-> net, req |-> req, rv |-> rv, msg |-> msg]

Settle(d) == [d EXCEPT !.exc = "none"]

CleanOf(d) ==
    [records |-> d.records, record_sizes |-> d.record_sizes,
     size |-> d.size, record_count |-> d.record_count, rev |-> d.rev]

NextClean == IF ds.changes = <<>> THEN CleanOf(ds) ELSE clean

TxnIdle == [max_tries |-> 0, tries |-> 0, calls |-> 0, rv |-> 0]

\* Datastores as DatastoreManager hands them out: a private one, and a
\* shareable one opened as editor or as viewer.
InitialDatastores ==
    {Datastore_init(FALSE, "owner"), Datastore_init(TRUE, "editor"),
     Datastore_init(TRUE, "viewer")}

Init ==
    /\ ds \in InitialDatastores
    /\ slog = <<>>
    /\ pc = "idle"
    /\ txn = TxnIdle
    /\ trace = <<>>
    /\ outcome = [Out("init", 0, "none", FALSE, NoRequest, 0, "") EXCEPT !.pending = 0]
    /\ clean = CleanOf(ds)
    /\ awaited = NoBatch
    /\ app = NoApp

\* ---------------------------------------------------------------- inputs
Rids == {"r1"}
InsertArgs == {EmptyDict, ("f" :> IntV(1))}
UpdateArgs == {("f" :> IntV(2)), ("f" :> None)}
Times == 1..MaxTime

\* ---------------------------------------------------------------- local calls
\* The application, or the callback of a running transaction(), may stage
\* one more change.
CanStage ==
    /\ pc \in {"idle", "callback"}
    /\ Len(ds.changes) < MaxPending
    /\ ds.pending_changes_size < MaxPendingBytes

\* A mutating call on a Table, Record or List handle has left d.
Local(op, d) ==
    /\ ds' = Settle(d)
    /\ outcome' = IF pc = "idle" THEN Out(op, 0, d.exc, FALSE, NoRequest, 0, "")
                  ELSE outcome
    /\ clean' = NextClean /\ UNCHANGED <<awaited, app>>
    /\ IF pc = "idle" THEN txn' = TxnIdle /\ trace' = <<>>
       ELSE UNCHANGED <<txn, trace>>
    /\ UNCHANGED <<slog, pc>>

GetOrInsert(recordid, fields) ==
    /\ CanStage
    /\ Local("get_or_insert", get_or_insert(ds, "t1", recordid, fields))

Update(recordid, kwds) ==
    /\ CanStage
    /\ Local("update", Record_update(ds, "t1", recordid, kwds))

DeleteRecord(recordid) ==
    /\ CanStage
    /\ Local("delete_record", delete_record(ds, "t1", recordid))

\* The List handle of a field, as Record.get or get_or_create_list returns it.
GetOrCreateList(recordid, field) ==
    /\ CanStage
    /\ Local("get_or_create_list", get_or_create_list(ds, "t1", recordid, field))

\* The list a List handle would grow has room for one more item.
ListHasRoom(recordid, field) ==
    List_check_ok(ds, "t1", recordid, field)
        => Len(ListItems(ds, "t1", recordid, field)) < MaxListLen

ListSetItem(recordid, field, index, value) ==
    /\ CanStage
    /\ Local("List.__setitem__", List_setitem(ds, "t1", recordid, field, index, value))

ListDelItem(recordid, field, index) ==
    /\ CanStage
    /\ Local("List.__delitem__", List_delitem(ds, "t1", recordid, field, index))

ListInsert(recordid, field, index, value) ==
    /\ CanStage
    /\ ListHasRoom(recordid, field)
    /\ Local("List.insert", List_insert(ds, "t1", recordid, field, index, value))

ListAppend(recordid, field, value) ==
    /\ CanStage
    /\ ListHasRoom(recordid, field)
    /\ Local("List.append", List_append(ds, "t1", recordid, field, value))

ListMove(recordid, field, index, newindex) ==
    /\ CanStage
    /\ Local("List.move", List_move(ds, "t1", recordid, field, index, newindex))

\* ---------------------------------------------------------------- calls on the datastore
\* A call made while no transaction runs has left d and log.
Call(op, arg, d, log, net, req) ==
    /\ ds' = Settle(d)
    /\ slog' = log
    /\ outcome' = Out(op, arg, d.exc, net, req, 0, "")
    /\ clean' = NextClean /\ UNCHANGED <<awaited, app>>
    /\ txn' = TxnIdle
    /\ trace' = <<>>
    /\ UNCHANGED pc

\* r is what commit() did.
CommitCall(r) ==
    /\ Len(r.log) <= MaxRev
    /\ Call("commit", 0, r.d, r.log, r.req # NoRequest, r.req)

Commit(now, fault) ==
    /\ pc = "idle"
    /\ Len(ds.changes) <= MaxPending
    /\ CommitCall(commit(ds, now, slog, fault))

Rollback ==
    /\ pc = "idle"
    /\ Call("rollback", 0, rollback(ds), slog, FALSE, NoRequest)

\* r is what load_deltas() or await_deltas() did.
DeltasCall(op, r) == Call(op, 0, r.d, slog, r.net, NoRequest)

LoadDeltas(fault) ==
    /\ pc = "idle"
    /\ DeltasCall("load_deltas", load_deltas(ds, slog, fault))

AwaitDeltas(fault) ==
    /\ pc = "idle"
    /\ DeltasCall("await_deltas", await_deltas(ds, slog, fault))

\* The deltas handed to apply_deltas: any selection of the server's deltas,
\* in order (a stale batch, a batch with a gap, ...).
RECURSIVE Subsequences(_)
Subsequences(s) ==
    IF s = <<>> THEN {<<>>}
    ELSE Subsequences(Tail(s)) \cup {<<Head(s)>> \o t : t \in Subsequences(Tail(s))}

DeltaInputs == Subsequences(slog)

ApplyDeltasCall(deltas) ==
    Call("apply_deltas", Len(deltas), apply_deltas(ds, deltas), slog, FALSE, NoRequest)

ApplyDeltas ==
    /\ pc = "idle"
    /\ \E deltas \in DeltaInputs : ApplyDeltasCall(deltas)

\* ---------------------------------------------------------------- snapshot calls
CanSnapshot ==
    /\ pc = "idle"
    /\ ds.record_count < MaxRecordCount

LoadSnapshot(fault) ==
    /\ CanSnapshot
    /\ Call("load_snapshot", 0, load_snapshot(ds, slog, fault), slog, TRUE, NoRequest)

\* The (rev, snapshot) pairs handed to apply_snapshot: what the server held
\* at each of its revisions.
SnapshotInputs ==
    {[rev |-> r, rows |-> get_snapshot(SubSeq(slog, 1, r), "ok").rows] : r \in 0..Len(slog)}

ApplySnapshotCall(snap) ==
    Call("apply_snapshot", snap.rev, apply_snapshot(ds, snap.rev, snap.rows), slog, FALSE, NoRequest)

ApplySnapshot ==
    /\ CanSnapshot
    /\ \E snap \in SnapshotInputs : ApplySnapshotCall(snap)

\* ---------------------------------------------------------------- other writers
\* The datastore the server holds: its log replayed from the empty datastore.
ServerDatastore == ApplyDeltasLoop(Datastore_init(FALSE, "owner"), slog)

\* A change another client gets accepted.
OtherChanges ==
    (IF "r2" \in DOMAIN ServerDatastore.records["t1"] THEN {}
     ELSE {_Change("I", "t1", "r2", ("f" :> IntV(3)), None)})
    \cup {_Change("U", "t1", r, ("f" :> ValuePut(IntV(3))), None) :
            r \in DOMAIN ServerDatastore.records["t1"]}
    \cup {_Change("D", "t1", r, None, None) : r \in DOMAIN ServerDatastore.records["t1"]}

OtherCommit ==
    /\ Len(slog) < MaxRev
    /\ \E ch \in OtherChanges :
          slog' = put_delta(slog, Len(slog), <<_Change_to_json(ch)>>, "ok").log
    /\ UNCHANGED <<ds, pc, txn, trace, outcome, clean, awaited, app>>

\* ---------------------------------------------------------------- transaction
\* The order in which transaction() handles a conflict: what it does after
\* commit() raised DatastoreConflictError, and after that.
AfterConflict_refresh == "load_deltas"
AfterConflict == "rollback"
AfterRollback == "load_deltas"

OutOfTriesMessage(max_tries) ==
    IF max_tries = 1 THEN "Failed to commit; set max_tries to a value > 1 to retry"
    ELSE "Failed to commit %d times in a row"

\* transaction() ends, leaving d: it returns rv or raises exc.
TxnEnd(d, exc, rv, msg, events) ==
    /\ ds' = Settle(d)
    /\ pc' = "idle"
    /\ outcome' = [outcome EXCEPT !.exc = exc, !.rv = rv, !.msg = msg]
    /\ trace' = trace \o events
    /\ clean' = NextClean /\ UNCHANGED <<awaited, app>>
    /\ UNCHANGED txn

\* The checks transaction() makes before its loop.
Transaction(max_tries) ==
    /\ pc = "idle"
    /\ clean' = NextClean /\ UNCHANGED <<awaited, app>>
    /\ UNCHANGED <<ds, slog>>
    /\ IF max_tries < 1
       THEN /\ outcome' = Out("transaction", max_tries, "ValueError", FALSE, NoRequest, 0, "")
            /\ txn' = TxnIdle /\ trace' = <<>> /\ UNCHANGED pc
       ELSE IF ds.changes # <<>>
       THEN /\ outcome' = Out("transaction", max_tries, "DatastoreError", FALSE, NoRequest, 0,
                              "There should be no pending changes")
            /\ txn' = TxnIdle /\ trace' = <<>> /\ UNCHANGED pc
       ELSE /\ outcome' = Out("transaction", max_tries, "running", FALSE, NoRequest, 0, "")
            /\ txn' = [max_tries |-> max_tries, tries |-> 0, calls |-> 1, rv |-> 0]
            /\ trace' = <<"callback">>
            /\ pc' = "callback"

\* The callback returns; its value is the number of this invocation.
CallbackReturn ==
    /\ pc = "callback"
    /\ pc' = "commit"
    /\ txn' = [txn EXCEPT !.rv = txn.calls]
    /\ clean' = NextClean /\ UNCHANGED <<awaited, app>>
    /\ UNCHANGED <<ds, slog, trace, outcome>>

\* transaction() has rolled back (leaving d) and re-raises exc, unless the
\* rollback itself raised.
TxnRaised(d, exc, event) ==
    IF Failed(d) THEN TxnEnd(d, d.exc, 0, "", <<event, "rollback_failed">>)
    ELSE TxnEnd(d, exc, 0, "", <<event, "rollback">>)

\* Variant of TxnReraise: the exception is re-raised without rolling back.
TxnReraise_keep(d, exc, event) == TxnRaised(d, exc, event)

\* An except clause of transaction() that gives up: roll back, re-raise.
TxnReraise(d, exc, event) == TxnRaised(rollback(d), exc, event)

\* The callback raises: roll back and re-raise.
CallbackRaise ==
    /\ pc = "callback"
    /\ TxnReraise(ds, "CallbackError", "raise")
    /\ UNCHANGED slog

\* What the loop does with r, the result of self.commit().
TxnCommitted(r) ==
    /\ Len(r.log) <= MaxRev
    /\ slog' = r.log
    /\ IF ~Failed(r.d)
       THEN TxnEnd(r.d, "none", txn.rv, "", <<"commit_ok">>)
       ELSE IF r.d.exc = "DatastoreConflictError"
       THEN /\ ds' = Settle(r.d)
            /\ pc' = AfterConflict
            /\ trace' = Append(trace, "commit_conflict")
            /\ clean' = NextClean /\ UNCHANGED <<awaited, app>>
            /\ UNCHANGED <<txn, outcome>>
       ELSE TxnReraise(Settle(r.d), r.d.exc, "commit_error")

\* self.commit() inside the loop.
TxnCommit(now, fault) ==
    /\ pc = "commit"
    /\ TxnCommitted(commit(ds, now, slog, fault))

\* d is what self.rollback() left.
TxnRolledBack(d) ==
    IF Failed(d) THEN TxnEnd(d, d.exc, 0, "", <<"rollback_failed">>)
    ELSE /\ ds' = d
         /\ pc' = AfterRollback
         /\ trace' = Append(trace, "rollback")
         /\ clean' = NextClean /\ UNCHANGED <<awaited, app>>
         /\ UNCHANGED <<txn, outcome>>

\* self.rollback() after a conflict.
TxnRollback ==
    /\ pc = "rollback"
    /\ TxnRolledBack(rollback(ds))
    /\ UNCHANGED slog

\* Variant of TxnLoaded: the loop is over after its first round.
TxnLoaded_once(d) ==
    IF Failed(d) THEN TxnEnd(d, d.exc, 0, "", <<"load_failed">>)
    ELSE TxnEnd(d, "DatastoreError", 0, OutOfTriesMessage(txn.max_tries), <<"load_deltas">>)

\* d is what self.load_deltas() left: the loop goes round, or is over.
TxnLoaded(d) ==
    IF Failed(d) THEN TxnEnd(d, d.exc, 0, "", <<"load_failed">>)
    ELSE IF txn.tries + 1 < txn.max_tries
    THEN /\ ds' = d
         /\ pc' = "callback"
         /\ txn' = [txn EXCEPT !.tries = @ + 1, !.calls = @ + 1]
         /\ trace' = trace \o <<"load_deltas", "callback">>
         /\ clean' = NextClean /\ UNCHANGED <<awaited, app>>
         /\ UNCHANGED outcome
    ELSE TxnEnd(d, "DatastoreError", 0, OutOfTriesMessage(txn.max_tries), <<"load_deltas">>)

\* self.load_deltas() after a conflict.
TxnLoadDeltas(fault) ==
    /\ pc = "load_deltas"
    /\ TxnLoaded(load_deltas(ds, slog, fault).d)
    /\ UNCHANGED slog

Next ==
    \/ \E r \in Rids, fields \in InsertArgs : GetOrInsert(r, fields)
    \/ \E r \in Rids, kwds \in UpdateArgs : Update(r, kwds)
    \/ \E r \in Rids : DeleteRecord(r)
    \/ \E now \in Times, fault \in Faults : Commit(now, fault)
    \/ Rollback
    \/ \E fault \in Faults : LoadDeltas(fault)
    \/ \E fault \in Faults : AwaitDeltas(fault)
    \/ ApplyDeltas
    \/ OtherCommit
    \/ \E max_tries \in 0..MaxTries : Transaction(max_tries)
    \/ CallbackReturn
    \/ CallbackRaise
    \/ \E now \in Times, fault \in Faults : TxnCommit(now, fault)
    \/ TxnRollback
    \/ \E fault \in Faults : TxnLoadDeltas(fault)

Spec == Init /\ [][Next]_vars

\* ---------------------------------------------------------------- one client, no other writer
\* A private datastore whose only client stages every kind of mutation,
\* rolls back and commits.
LocalInit == Init /\ ds = Datastore_init(FALSE, "owner")

LocalInsertArgs == {EmptyDict, ("f" :> StrV(3)), ("f" :> IntV(0) @@ "g" :> ListV(<<IntV(1)>>))}
LocalUpdateArgs == {("f" :> IntV(2)), ("f" :> None), ("f" :> StrV(1) @@ "g" :> None)}
ListFields == {"g"}
ListValues == {IntV(1), StrV(2)}
ListIndexes == -1..MaxListLen - 1

LocalNext ==
    \/ \E r \in Rids, fields \in LocalInsertArgs : GetOrInsert(r, fields)
    \/ \E r \in Rids, kwds \in LocalUpdateArgs : Update(r, kwds)
    \/ \E r \in Rids : DeleteRecord(r)
    \/ \E r \in Rids, f \in ListFields : GetOrCreateList(r, f)
    \/ \E r \in Rids, f \in ListFields, i \in ListIndexes, v \in ListValues :
          ListSetItem(r, f, i, v)
    \/ \E r \in Rids, f \in ListFields, i \in ListIndexes : ListDelItem(r, f, i)
    \/ \E r \in Rids, f \in ListFields, i \in ListIndexes, v \in ListValues :
          ListInsert(r, f, i, v)
    \/ \E r \in Rids, f \in ListFields, v \in ListValues : ListAppend(r, f, v)
    \/ \E r \in Rids, f \in ListFields, i \in ListIndexes, j \in ListIndexes :
          ListMove(r, f, i, j)
    \/ Rollback
    \/ \E now \in Times : Commit(now, "ok")

SpecLocal == LocalInit /\ [][LocalNext]_vars

\* ---------------------------------------------------------------- one client and snapshots
\* A client that stages changes, commits, rolls back and reloads the
\* datastore from snapshots, next to another writer.
SnapshotNext ==
    \/ \E r \in Rids, fields \in InsertArgs : GetOrInsert(r, fields)
    \/ \E r \in Rids, kwds \in UpdateArgs : Update(r, kwds)
    \/ \E r \in Rids : DeleteRecord(r)
    \/ \E now \in Times : Commit(now, "ok")
    \/ Rollback
    \/ OtherCommit
    \/ \E fault \in Faults : LoadSnapshot(fault)
    \/ ApplySnapshot

SpecSnapshot == LocalInit /\ [][SnapshotNext]_vars

\* ---------------------------------------------------------------- every mutation, with deltas
\* A list change another client gets accepted: it creates the list g of a
\* record, or inserts into a list that a list op created.
OtherListChanges ==
    {_Change("U", "t1", r, ("g" :> _make_list_create), None) :
        r \in {x \in DOMAIN ServerDatastore.records["t1"] :
                  "g" \notin DOMAIN ServerDatastore.records["t1"][x]}}
    \cup {_Change("U", "t1", r, ("g" :> _make_list_insert(0, StrV(1))), None) :
            r \in {x \in DOMAIN ServerDatastore.records["t1"] :
                      /\ IsTuple(DictGet(ServerDatastore.records["t1"][x], "g"))
                      /\ Len(ServerDatastore.records["t1"][x]["g"].items) < MaxListLen}}

OtherListCommit ==
    /\ Len(slog) < MaxRev
    /\ \E ch \in OtherListChanges :
          slog' = put_delta(slog, Len(slog), <<_Change_to_json(ch)>>, "ok").log
    /\ UNCHANGED <<ds, pc, txn, trace, outcome, clean, awaited, app>>

\* One client staging every kind of mutation, rolling back, committing and
\* taking in the deltas of another writer.
SizesNext ==
    \/ \E r \in Rids, fields \in LocalInsertArgs : GetOrInsert(r, fields)
    \/ \E r \in Rids, kwds \in LocalUpdateArgs : Update(r, kwds)
    \/ \E r \in Rids : DeleteRecord(r)
    \/ \E r \in Rids, f \in ListFields : GetOrCreateList(r, f)
    \/ \E r \in Rids, f \in ListFields, i \in ListIndexes, v \in ListValues :
          ListSetItem(r, f, i, v)
    \/ \E r \in Rids, f \in ListFields, i \in ListIndexes : ListDelItem(r, f, i)
    \/ \E r \in Rids, f \in ListFields, i \in ListIndexes, v \in ListValues :
          ListInsert(r, f, i, v)
    \/ \E r \in Rids, f \in ListFields, v \in ListValues : ListAppend(r, f, v)
    \/ \E r \in Rids, f \in ListFields, i \in ListIndexes, j \in ListIndexes :
          ListMove(r, f, i, j)
    \/ Rollback
    \/ \E now \in Times : Commit(now, "ok")
    \/ OtherCommit
    \/ OtherListCommit
    \/ LoadDeltas("ok")
    \/ ApplyDeltas

SpecSizes == LocalInit /\ [][SizesNext]_vars

\* ---------------------------------------------------------------- queries
\* r is what Table.query(**kwds) did.
QueryCall(kwds, r) ==
    /\ outcome' = Out("query", kwds, r.exc, FALSE, NoRequest, r.rv, "")
    /\ txn' = TxnIdle
    /\ trace' = <<>>
    /\ UNCHANGED <<ds, slog, pc, clean, awaited, app>>

Query(kwds) ==
    /\ pc = "idle"
    /\ QueryCall(kwds, Table_query(ds, "t1", kwds))

QueryRids == {"r1", "r2"}
QueryInsertArgs ==
    {("x" :> IntV(0)), ("x" :> FloatV(0)), ("x" :> BoolV(0)),
     ("x" :> BoolV(1) @@ "y" :> StrV(1)), ("x" :> IntV(1) @@ "y" :> StrV(1)),
     ("x" :> ListV(<<BoolV(1)>>)), ("y" :> StrV(1))}
QueryArgs ==
    {EmptyDict, ("x" :> IntV(0)), ("x" :> FloatV(0)), ("x" :> BoolV(0)),
     ("x" :> IntV(1)), ("x" :> IntV(1) @@ "y" :> StrV(1)),
     ("x" :> ListV(<<IntV(1)>>)), ("@" :> IntV(0)), ("x" :> ObjV)}

\* One client filling a table and querying it.
QueryNext ==
    \/ \E r \in QueryRids, fields \in QueryInsertArgs : GetOrInsert(r, fields)
    \/ \E r \in QueryRids : DeleteRecord(r)
    \/ Rollback
    \/ \E kwds \in QueryArgs : Query(kwds)

SpecQuery == LocalInit /\ [][QueryNext]_vars

\* ---------------------------------------------------------------- records
RecordInsertArgs ==
    {("f" :> IntV(1)), ("f" :> IntV(0) @@ "g" :> StrV(1)),
     ("f" :> IntV(1) @@ "g" :> None), ("f" :> IntV(1) @@ "@" :> IntV(2)),
     ("f" :> ObjV @@ "g" :> IntV(1))}
RecordUpdateArgs ==
    {("f" :> IntV(2) @@ "g" :> StrV(2)), ("f" :> None @@ "g" :> IntV(3)),
     ("f" :> None), ("f" :> IntV(2) @@ "@" :> IntV(1)),
     ("f" :> IntV(2) @@ "g" :> ObjV), ("f" :> ObjV @@ "g" :> IntV(2))}

\* An owner, an editor or a viewer working on the records of a table and
\* on their lists.
RecordsNext ==
    \/ \E r \in Rids, fields \in RecordInsertArgs : GetOrInsert(r, fields)
    \/ \E r \in Rids, kwds \in RecordUpdateArgs : Update(r, kwds)
    \/ \E r \in Rids : DeleteRecord(r)
    \/ \E r \in Rids : GetOrCreateList(r, "h")
    \/ \E r \in Rids, v \in ListValues : ListAppend(r, "h", v)
    \/ Rollback
    \/ \E now \in Times : Commit(now, "ok")

SpecRecords == Init /\ [][RecordsNext]_vars

\* ---------------------------------------------------------------- list indexes
\* Indexes from below -len to above len, for lists of up to MaxListLen items.
WideIndexes == -(MaxListLen + 1)..MaxListLen

\* One client working on the list g of a record with every index.
ListsNext ==
    \/ \E r \in Rids, items \in {<<>>, <<IntV(1), StrV(2)>>} :
          GetOrInsert(r, ("g" :> ListV(items)))
    \/ \E r \in Rids, i \in WideIndexes, v \in ListValues : ListSetItem(r, "g", i, v)
    \/ \E r \in Rids, i \in WideIndexes : ListDelItem(r, "g", i)
    \/ \E r \in Rids, i \in WideIndexes, v \in ListValues : ListInsert(r, "g", i, v)
    \/ \E r \in Rids, i \in WideIndexes, j \in WideIndexes : ListMove(r, "g", i, j)
    \/ Rollback
    \/ \E now \in Times : Commit(now, "ok")

SpecLists == LocalInit /\ [][ListsNext]_vars

\* ---------------------------------------------------------------- list handles
ListExtend(recordid, field, values) ==
    /\ pc = "idle"
    /\ Len(ds.changes) + Len(values) <= MaxPending
    /\ ds.pending_changes_size < MaxPendingBytes
    /\ List_check_ok(ds, "t1", recordid, field)
          => Len(ListItems(ds, "t1", recordid, field)) + Len(values) <= MaxListLen
    /\ Local("List.extend", List_extend(ds, "t1", recordid, field, values))

ListPop(recordid, field, index) ==
    /\ CanStage
    /\ Local("List.pop", List_pop(ds, "t1", recordid, field, index))

\* r is what a call that only reads did.
ReadCall(op, r) ==
    /\ outcome' = Out(op, 0, r.exc, FALSE, NoRequest, r.rv, "")
    /\ txn' = TxnIdle
    /\ trace' = <<>>
    /\ UNCHANGED <<ds, slog, pc, clean, awaited, app>>

ListRead(recordid, field, index) ==
    /\ pc = "idle"
    /\ \/ ReadCall("List.__len__", List_len(ds, "t1", recordid, field))
       \/ ReadCall("List.__iter__", List_iter(ds, "t1", recordid, field))
       \/ ReadCall("List.__getitem__", List_getitem(ds, "t1", recordid, field, index))

\* One client using the handles of the list g of a record while the
\* record and the field come and go.
HandlesNext ==
    \/ \E r \in Rids, items \in {<<>>, <<IntV(1), StrV(2)>>} :
          GetOrInsert(r, ("g" :> ListV(items)))
    \/ \E r \in Rids, v \in {IntV(5), None} : Update(r, ("g" :> v))
    \/ \E r \in Rids : DeleteRecord(r)
    \/ \E r \in Rids : GetOrCreateList(r, "g")
    \/ \E r \in Rids, i \in ListIndexes, v \in ListValues : ListSetItem(r, "g", i, v)
    \/ \E r \in Rids, i \in ListIndexes : ListDelItem(r, "g", i)
    \/ \E r \in Rids, i \in ListIndexes, v \in ListValues : ListInsert(r, "g", i, v)
    \/ \E r \in Rids, v \in ListValues : ListAppend(r, "g", v)
    \/ \E r \in Rids, i \in ListIndexes, j \in ListIndexes : ListMove(r, "g", i, j)
    \/ \E r \in Rids, vs \in {<<>>, <<StrV(2)>>, <<IntV(1), StrV(2)>>} :
          ListExtend(r, "g", vs)
    \/ \E r \in Rids, i \in ListIndexes : ListPop(r, "g", i)
    \/ \E r \in Rids, i \in ListIndexes : ListRead(r, "g", i)
    \/ Rollback
    \/ \E now \in Times : Commit(now, "ok")

SpecHandles == LocalInit /\ [][HandlesNext]_vars

\* ---------------------------------------------------------------- sharing
PrincipalArgs == {Principal("public"), Principal("team"), NotAPrincipal}
RoleArgs ==
    {RoleStr("editor"), RoleStr("viewer"), RoleStr("none"), RoleStr("owner"),
     RoleStr("woner"), IntV(ROLE_OWNER), None}
TitleArgs == {StrV(1), None, IntV(1)}
SharingPrincipals == {Principal("public"), NotAPrincipal}

\* set_title stages up to two changes: the info record and its title.
SetTitle(title) ==
    /\ pc = "idle"
    /\ Len(ds.changes) + 2 <= MaxPending
    /\ ds.pending_changes_size < MaxPendingBytes
    /\ Local("set_title", set_title(ds, title))

SetRole(principal, role) ==
    /\ CanStage
    /\ Local("set_role", set_role(ds, principal, role))

DeleteRole(principal) ==
    /\ CanStage
    /\ Local("delete_role", delete_role(ds, principal))

GetRole(principal) ==
    /\ pc = "idle"
    /\ ReadCall("get_role", get_role(ds, principal))

ListRoles ==
    /\ pc = "idle"
    /\ ReadCall("list_roles", list_roles(ds))

\* An ACL change another client gets accepted: it gives the public a role,
\* one with a code this client does not know, or takes the role away.
OtherAclChanges ==
    IF "public" \notin DOMAIN ServerDatastore.records[":acl"]
    THEN {_Change("I", ":acl", "public", ("role" :> IntV(c)), None) :
            c \in {ROLE_VIEWER, ROLE_EDITOR + 500}}
    ELSE {_Change("D", ":acl", "public", None, None)}

OtherAclCommit ==
    /\ Len(slog) < MaxRev
    /\ \E ch \in OtherAclChanges :
          slog' = put_delta(slog, Len(slog), <<_Change_to_json(ch)>>, "ok").log
    /\ UNCHANGED <<ds, pc, txn, trace, outcome, clean, awaited, app>>

\* A viewer of a shareable datastore trying every mutating call while
\* other clients change records, lists and the ACL.
ViewerNext ==
    \/ \E r \in {"r1", "r2"} : GetOrInsert(r, ("f" :> IntV(1)))
    \/ \E kwds \in {("f" :> IntV(2)), ("f" :> None)} : Update("r2", kwds)
    \/ DeleteRecord("r2")
    \/ \E f \in {"f", "g", "h"} : GetOrCreateList("r2", f)
    \/ \E i \in ListIndexes, v \in ListValues : ListSetItem("r2", "g", i, v)
    \/ \E i \in ListIndexes : ListDelItem("r2", "g", i)
    \/ \E i \in ListIndexes, v \in ListValues : ListInsert("r2", "g", i, v)
    \/ \E v \in ListValues : ListAppend("r2", "g", v)
    \/ \E i \in ListIndexes, j \in ListIndexes : ListMove("r2", "g", i, j)
    \/ \E title \in TitleArgs : SetTitle(title)
    \/ \E p \in PrincipalArgs, role \in RoleArgs : SetRole(p, role)
    \/ \E p \in PrincipalArgs : DeleteRole(p)
    \/ \E p \in PrincipalArgs : GetRole(p)
    \/ ListRoles
    \/ Rollback
    \/ OtherCommit
    \/ OtherListCommit
    \/ OtherAclCommit
    \/ LoadDeltas("ok")

ViewerInit ==
    /\ Init
    /\ ds = Datastore_init(TRUE, "viewer")

SpecViewer == ViewerInit /\ [][ViewerNext]_vars

\* get_effective_role() or is_writable(), which raise nothing.
RoleRead ==
    /\ pc = "idle"
    /\ \/ ReadCall("get_effective_role", [exc |-> "none", rv |-> get_effective_role(ds)])
       \/ ReadCall("is_writable", [exc |-> "none", rv |-> is_writable(ds)])

\* A private datastore, or a shareable one opened as editor or viewer: one
\* client reading and changing the ACL and the title, rolling back and
\* committing, while another client changes the ACL.
SharingNext ==
    \/ \E title \in TitleArgs : SetTitle(title)
    \/ \E p \in SharingPrincipals, role \in RoleArgs : SetRole(p, role)
    \/ \E p \in SharingPrincipals : DeleteRole(p)
    \/ \E p \in SharingPrincipals : GetRole(p)
    \/ ListRoles
    \/ RoleRead
    \/ Rollback
    \/ \E now \in Times : Commit(now, "ok")
    \/ OtherAclCommit
    \/ LoadDeltas("ok")

SpecSharing == Init /\ [][SharingNext]_vars

\* ---------------------------------------------------------------- role codes
\* The role codes around each threshold, negative ones included, and what
\* else a caller may pass for a code or a role.
RoleSpread == 3
RoleCodes ==
    UNION {(c - RoleSpread)..(c + RoleSpread) :
              c \in {ROLE_NONE, ROLE_VIEWER, ROLE_EDITOR, ROLE_OWNER}}
RoleNames == {"owner", "editor", "viewer", "none", "woner", ""}
RoleInputs ==
    {IntV(c) : c \in RoleCodes} \cup {RoleStr(r) : r \in RoleNames}
    \cup {None, BoolV(1), FloatV(ROLE_OWNER)}

RolesInit ==
    /\ ds = Datastore_init(TRUE, "editor")
    /\ slog = <<>>
    /\ pc = "idle"
    /\ txn = TxnIdle
    /\ trace = <<>>
    /\ clean = CleanOf(ds)
    /\ awaited = NoBatch
    /\ app = NoApp
    /\ \E x \in RoleInputs :
          outcome = [Out("args", x, "none", FALSE, NoRequest, 0, "") EXCEPT !.pending = 0]

\* r is what op did with the argument that Init drew.
RoleCall(op, r) ==
    /\ outcome' = Out(op, outcome.arg, r.exc, FALSE, NoRequest, r.rv, "")
    /\ UNCHANGED <<ds, slog, pc, txn, trace, clean, awaited, app>>

MakeRole ==
    /\ outcome.op = "args"
    /\ RoleCall("_make_role", _make_role(outcome.arg))

ParseRole(owner_ok) ==
    /\ outcome.op = "args"
    /\ RoleCall(IF owner_ok THEN "_parse_role(owner_ok=True)" ELSE "_parse_role",
                _parse_role(outcome.arg, owner_ok))

\* _make_role(_parse_role(role, owner_ok=True))
MakeParsedRole ==
    /\ outcome.op = "args"
    /\ LET i == _parse_role(outcome.arg, TRUE)
       IN RoleCall("_make_role(_parse_role)",
                   IF i.exc # "none" THEN [exc |-> i.exc, rv |-> ""]
                   ELSE _make_role(IntV(i.rv)))

RolesNext ==
    \/ MakeRole
    \/ \E owner_ok \in BOOLEAN : ParseRole(owner_ok)
    \/ MakeParsedRole

SpecRoles == RolesInit /\ [][RolesNext]_vars

\* ---------------------------------------------------------------- values on the wire
\* The atoms, the lists of up to two atoms, and the JSON values (plain
\* ones, and arrays whose items are encoded as atoms are) that the
\* conversions are given.
DateMs == {0, 1, 999, 1000, 1001, 1002, 1003, 2002, 2003, MaxMs}
WireAtoms ==
    {BoolV(0), BoolV(1), IntV(-12), IntV(0), IntV(1), IntV(1234567),
     FloatV(0), FloatV(1), SpecialFloatV("+inf"), SpecialFloatV("-inf"),
     SpecialFloatV("nan"), StrV(0), StrV(3), BytesV(0), BytesV(2)}
    \cup {DateV(n) : n \in DateMs}
ItemAtoms == {IntV(1), BoolV(1), FloatV(1), StrV(2), DateV(1), BytesV(1)}
WireLists ==
    {ListV(<<>>)} \cup {ListV(<<x>>) : x \in ItemAtoms}
    \cup {ListV(<<x, y>>) : x \in ItemAtoms, y \in ItemAtoms}
PlainJson ==
    {[j |-> "num", n |-> 1, isint |-> TRUE], [j |-> "num", n |-> 1, isint |-> FALSE],
     [j |-> "bool", n |-> 1], [j |-> "str", n |-> 2],
     [j |-> "array", items |-> <<>>],
     [j |-> "array", items |-> <<[j |-> "I", digits |-> <<"1">>]>>],
     [j |-> "array", items |-> <<[j |-> "str", n |-> 2], [j |-> "T", digits |-> <<"1">>]>>]}

WireInit ==
    /\ ds = Datastore_init(FALSE, "owner")
    /\ slog = <<>>
    /\ pc = "idle"
    /\ txn = TxnIdle
    /\ trace = <<>>
    /\ clean = CleanOf(ds)
    /\ awaited = NoBatch
    /\ app = NoApp
    /\ \/ \E v \in WireAtoms \cup WireLists :
             outcome = [Out("value", v, "none", FALSE, NoRequest, 0, "") EXCEPT !.pending = 0]
       \/ \E w \in PlainJson :
             outcome = [Out("json", w, "none", FALSE, NoRequest, 0, "") EXCEPT !.pending = 0]

\* rv is what op returned for the argument that Init drew.
WireCall(op, rv) ==
    /\ outcome' = Out(op, outcome.arg, "none", FALSE, NoRequest, rv, "")
    /\ UNCHANGED <<ds, slog, pc, txn, trace, clean, awaited, app>>

ValueToJson ==
    /\ outcome.op = "value"
    /\ WireCall("_value_to_json", _value_to_json(outcome.arg))

ValueFromJson ==
    /\ outcome.op = "json"
    /\ WireCall("_value_from_json", _value_from_json(outcome.arg))

\* _value_from_json(_value_to_json(v))
ValueRoundTrip ==
    /\ outcome.op = "value"
    /\ WireCall("_value_from_json(_value_to_json)",
                _value_from_json(_value_to_json(outcome.arg)))

WireNext ==
    \/ ValueToJson
    \/ ValueFromJson
    \/ ValueRoundTrip

SpecWire == WireInit /\ [][WireNext]_vars

\* ---------------------------------------------------------------- revisions
RevisionsInit ==
    /\ Init
    /\ ds = Datastore_init(TRUE, "editor")

\* The editor of a shareable datastore making every local call, rolling
\* back, committing, and taking in deltas and snapshots, while another
\* client commits.
RevisionsNext ==
    \/ GetOrInsert("r1", ("f" :> IntV(1)))
    \/ Update("r1", ("f" :> IntV(2)))
    \/ DeleteRecord("r1")
    \/ GetOrCreateList("r1", "g")
    \/ ListSetItem("r1", "g", 0, StrV(2))
    \/ ListDelItem("r1", "g", 0)
    \/ ListInsert("r1", "g", 0, IntV(1))
    \/ ListAppend("r1", "g", IntV(1))
    \/ ListMove("r1", "g", 0, -1)
    \/ SetTitle(StrV(1))
    \/ \E role \in {RoleStr("viewer"), RoleStr("none")} : SetRole(Principal("public"), role)
    \/ DeleteRole(Principal("public"))
    \/ Rollback
    \/ \E now \in Times : Commit(now, "ok")
    \/ OtherCommit
    \/ LoadDeltas("ok")
    \/ ApplyDeltas
    \/ ApplySnapshot

SpecRevisions == RevisionsInit /\ [][RevisionsNext]_vars

\* ---------------------------------------------------------------- cached sizes
\* Record.get_size() on a handle of record recordid of t1, whether the
\* record exists or not.
RecordGetSize(recordid) ==
    /\ pc = "idle"
    /\ outcome' = Out("Record.get_size", recordid, Record_get_size(ds, "t1", recordid).exc,
                      FALSE, NoRequest, Record_get_size(ds, "t1", recordid).rv, "")
    /\ txn' = TxnIdle
    /\ trace' = <<>>
    /\ UNCHANGED <<ds, slog, pc, clean, awaited, app>>

\* One client inserting, updating and deleting records and lists, rolling
\* back, committing, taking in deltas and snapshots, and reading the sizes
\* of its records in between.
CacheNext ==
    \/ \E r \in Rids : GetOrInsert(r, ("f" :> StrV(2)))
    \/ Update("r1", ("f" :> IntV(2)))
    \/ \E r \in Rids : DeleteRecord(r)
    \/ GetOrCreateList("r1", "g")
    \/ ListAppend("r1", "g", StrV(1))
    \/ ListDelItem("r1", "g", 0)
    \/ Rollback
    \/ \E now \in Times : Commit(now, "ok")
    \/ OtherCommit
    \/ LoadDeltas("ok")
    \/ ApplySnapshot
    \/ \E r \in Rids : RecordGetSize(r)

SpecCache == LocalInit /\ [][CacheNext]_vars

\* ---------------------------------------------------------------- changes
\* The changes handed to _Change.invert, to_json, from_json and size: each
\* carries the undo data the datastore records with it.
ChangeValues ==
    {IntV(1), BoolV(1), FloatV(1), StrV(2), BytesV(3), DateV(1), DateV(1001),
     ListV(<<>>), ListV(<<StrV(1), IntV(1)>>)}

ChangeItems == {IntV(1), StrV(2)}

BeforeItems == {IntV(0), StrV(1)}

BeforeLists ==
    {ListV(<<>>)} \cup {ListV(<<a>>) : a \in BeforeItems}
        \cup {ListV(<<a, b>>) : a \in BeforeItems, b \in BeforeItems}

ChangeFields ==
    {EmptyDict} \cup {("f" :> v) : v \in ChangeValues}
        \cup {("f" :> StrV(2)) @@ ("g" :> v) : v \in {IntV(1), ListV(<<StrV(1)>>)}}

\* [op, undo] pairs for one field.
FieldOpInputs ==
    {[op |-> ValuePut(v), undo |-> b] : v \in ChangeValues, b \in {None, IntV(0), StrV(1)}}
        \cup {[op |-> ValueDelete, undo |-> b] : b \in {IntV(0), StrV(1), ListV(<<IntV(0)>>)}}
        \cup {[op |-> _make_list_create, undo |-> b] : b \in {None, ListV(<<>>)}}
        \cup UNION {{[op |-> _make_list_put(i, v), undo |-> b] :
                        i \in 0..Len(b.items) - 1, v \in ChangeItems} : b \in BeforeLists}
        \cup UNION {{[op |-> _make_list_insert(i, v), undo |-> b] :
                        i \in 0..Len(b.items), v \in ChangeItems} : b \in BeforeLists}
        \cup UNION {{[op |-> _make_list_delete(i), undo |-> b] :
                        i \in 0..Len(b.items) - 1} : b \in BeforeLists}
        \cup UNION {{[op |-> _make_list_move(i, j), undo |-> b] :
                        i \in 0..Len(b.items) - 1, j \in 0..Len(b.items) - 1} : b \in BeforeLists}

TwoFieldOps ==
    {[op |-> _make_list_insert(0, StrV(2)), undo |-> ListV(<<>>)],
     [op |-> _make_list_move(0, 1), undo |-> ListV(<<IntV(0), StrV(1)>>)],
     [op |-> ValueDelete, undo |-> StrV(1)]}

ChangeInputs ==
    {_Change("I", "t1", "r1", fields, None) : fields \in ChangeFields}
        \cup {_Change("D", "t1", "r1", None, fields) : fields \in ChangeFields}
        \cup {_Change("U", "t1", "r1", ("f" :> x.op), ("f" :> x.undo)) : x \in FieldOpInputs}
        \cup {_Change("U", "t1", "r1", ("f" :> ValuePut(StrV(2))) @@ ("g" :> x.op),
                      ("f" :> IntV(0)) @@ ("g" :> x.undo)) : x \in TwoFieldOps}

ChangesInit ==
    /\ ds = Datastore_init(FALSE, "owner")
    /\ slog = <<>>
    /\ pc = "idle"
    /\ txn = TxnIdle
    /\ trace = <<>>
    /\ clean = CleanOf(ds)
    /\ awaited = NoBatch
    /\ app = NoApp
    /\ \E c \in ChangeInputs :
          outcome = [Out("change", c, "none", FALSE, NoRequest, 0, "") EXCEPT !.pending = 0]

\* rv is what op returned for the change that Init drew.
ChangeCall(op, rv) ==
    /\ outcome.op = "change"
    /\ outcome' = Out(op, outcome.arg, "none", FALSE, NoRequest, rv, "")
    /\ UNCHANGED <<ds, slog, pc, txn, trace, clean, awaited, app>>

\* c.invert(): [ok, change], ok false where an assert fires.
ChangeInvert ==
    /\ outcome.arg.op \in {"I", "U", "D"}
    /\ ChangeCall("invert", _Change_invert(outcome.arg))

\* c.invert().invert()
ChangeInvertTwice ==
    /\ _Change_invert(outcome.arg).ok
    /\ ChangeCall("invert.invert", _Change_invert(_Change_invert(outcome.arg).change))

\* c.to_json()
ChangeToJson ==
    /\ outcome.arg.op \in {"I", "U", "D"}
    /\ ChangeCall("to_json", _Change_to_json(outcome.arg))

\* _Change.from_json(c.to_json())
ChangeFromJson ==
    /\ outcome.arg.op \in {"I", "U", "D"}
    /\ ChangeCall("from_json(to_json)", _Change_from_json(_Change_to_json(outcome.arg)))

\* c.size()
ChangeSize ==
    /\ outcome.arg.op \in {"I", "U", "D"}
    /\ ChangeCall("size", _Change_size(outcome.arg))

ChangesNext ==
    \/ ChangeInvert
    \/ ChangeInvertTwice
    \/ ChangeToJson
    \/ ChangeFromJson
    \/ ChangeSize

SpecChanges == ChangesInit /\ [][ChangesNext]_vars

\* ---------------------------------------------------------------- tasks app
\* tasks.py runs each request in a thread of its own (app.run(threaded=True)).
\* A step of a request is one statement of its route; between two steps
\* the other requests may run.
CACHE_LIMIT == 32

\* The tokens of the requests: none, the oldest token of the cache, and a
\* token that the cache does not hold.
ReqTokens == {NoToken, 1, CACHE_LIMIT + 1}

\* The cache when the requests arrive: full, with the datastores of tokens
\* 1..CACHE_LIMIT.
CacheFills == {CACHE_LIMIT}

InCache(cache, token) == \E i \in 1..Len(cache) : cache[i] = token

\* del cache[token]
CacheDel(cache, token) == SelectSeq(cache, LAMBDA t : t # token)

\* The app a with request r at the statement `at`.
At(a, r, at) == [a EXCEPT !.req[r].pc = at]

\* Request r leaves open_datastore or its route with exception exc.
RaiseIn(a, r, exc) == [a EXCEPT !.req[r].pc = "exit", !.req[r].exc = exc]

\* Variant of get_access_token_lock: a new Lock for every request.
get_access_token_lock_fresh(a, r) ==
    [a EXCEPT !.locks = [x \in DOMAIN @ \cup {a.req[r].token} |-> IF x = a.req[r].token THEN r ELSE @[x]],
              !.req[r].lock = r,
              !.meta = 0,
              !.req[r].pc = "got"]

\* get_access_token_lock, the body of `with meta_lock` and its exit: the Lock
\* that locks holds for the token, or a new one stored there.
get_access_token_lock(a, r) ==
    IF a.req[r].token \in DOMAIN a.locks
    THEN [a EXCEPT !.req[r].lock = a.locks[a.req[r].token],
                   !.meta = 0,
                   !.req[r].pc = "got"]
    ELSE [a EXCEPT !.locks = [x \in DOMAIN @ \cup {a.req[r].token} |-> IF x = a.req[r].token THEN r ELSE @[x]],
                   !.req[r].lock = r,
                   !.meta = 0,
                   !.req[r].pc = "got"]

\* A request of a session with the given token arrives; home() opens the
\* datastore with refresh=True, the other routes without.
Arrive(r, token, refresh) ==
    /\ app.req[r].pc = "new"
    /\ app' = [app EXCEPT !.req[r] = [NewRequest EXCEPT !.pc = "start", !.token = token,
                                                        !.refresh = refresh]]
    /\ UNCHANGED <<ds, slog, pc, txn, trace, outcome, clean, awaited>>

\* get_access_token_lock without access token: return Lock(), a dummy.
DummyLock(r) ==
    /\ app.req[r].pc = "start"
    /\ app.req[r].token = NoToken
    /\ app' = [app EXCEPT !.req[r].lock = r, !.req[r].pc = "got"]
    /\ UNCHANGED <<ds, slog, pc, txn, trace, outcome, clean, awaited>>

\* with meta_lock: (entry)
MetaAcquire(r) ==
    /\ app.req[r].pc = "start"
    /\ app.req[r].token # NoToken
    /\ app.meta = 0
    /\ app' = [app EXCEPT !.meta = r, !.req[r].pc = "meta"]
    /\ UNCHANGED <<ds, slog, pc, txn, trace, outcome, clean, awaited>>

GetAccessTokenLock(r) ==
    /\ app.req[r].pc = "meta"
    /\ app' = get_access_token_lock(app, r)
    /\ UNCHANGED <<ds, slog, pc, txn, trace, outcome, clean, awaited>>

\* with get_access_token_lock(): (entry) blocks until the Lock is free.
LockAcquire(r) ==
    /\ app.req[r].pc = "got"
    /\ app.holder[app.req[r].lock] = 0
    /\ app' = [app EXCEPT !.holder[app.req[r].lock] = r, !.req[r].pc = "open"]
    /\ UNCHANGED <<ds, slog, pc, txn, trace, outcome, clean, awaited>>

\* open_datastore: no access token returns None; else datastore = cache.get(access_token)
CacheGet(r) ==
    /\ app.req[r].pc = "open"
    /\ app' = IF app.req[r].token = NoToken THEN At(app, r, "exit")
              ELSE IF InCache(app.cache, app.req[r].token) THEN At(app, r, "del")
              ELSE At(app, r, "connect")
    /\ UNCHANGED <<ds, slog, pc, txn, trace, outcome, clean, awaited>>

\* del cache[access_token]: KeyError, which open_datastore does not catch,
\* when the entry is gone.
CacheDelOwn(r) ==
    /\ app.req[r].pc = "del"
    /\ app' = IF ~InCache(app.cache, app.req[r].token) THEN RaiseIn(app, r, "KeyError")
              ELSE [app EXCEPT !.cache = CacheDel(@, app.req[r].token),
                               !.req[r].pc = IF app.req[r].refresh THEN "refresh" ELSE "set"]
    /\ UNCHANGED <<ds, slog, pc, txn, trace, outcome, clean, awaited>>

\* datastore.load_deltas(): an ErrorResponse or DatastoreError is caught and
\* open_datastore returns None.
Refresh(r, ok) ==
    /\ app.req[r].pc = "refresh"
    /\ app' = At(app, r, IF ok THEN "set" ELSE "exit")
    /\ UNCHANGED <<ds, slog, pc, txn, trace, outcome, clean, awaited>>

\* manager.open_default_datastore(), with the same except clause.
Connect(r, ok) ==
    /\ app.req[r].pc = "connect"
    /\ app' = At(app, r, IF ok THEN "len" ELSE "exit")
    /\ UNCHANGED <<ds, slog, pc, txn, trace, outcome, clean, awaited>>

\* if len(cache) >= 32:
LenCheck(r) ==
    /\ app.req[r].pc = "len"
    /\ app' = At(app, r, IF Len(app.cache) >= CACHE_LIMIT THEN "pick" ELSE "set")
    /\ UNCHANGED <<ds, slog, pc, txn, trace, outcome, clean, awaited>>

\* to_delete = next(iter(cache))
PickOldest(r) ==
    /\ app.req[r].pc = "pick"
    /\ app' = IF app.cache = <<>> THEN RaiseIn(app, r, "StopIteration")
              ELSE [app EXCEPT !.req[r].to_delete = Head(app.cache), !.req[r].pc = "evict"]
    /\ UNCHANGED <<ds, slog, pc, txn, trace, outcome, clean, awaited>>

\* del cache[to_delete]
Evict(r) ==
    /\ app.req[r].pc = "evict"
    /\ app' = IF ~InCache(app.cache, app.req[r].to_delete) THEN RaiseIn(app, r, "KeyError")
              ELSE [app EXCEPT !.cache = CacheDel(@, app.req[r].to_delete), !.req[r].pc = "set"]
    /\ UNCHANGED <<ds, slog, pc, txn, trace, outcome, clean, awaited>>

\* cache[access_token] = datastore; return datastore
CacheSet(r) ==
    /\ app.req[r].pc = "set"
    /\ app' = [app EXCEPT !.cache = IF InCache(@, app.req[r].token) THEN @
                                    ELSE Append(@, app.req[r].token),
                          !.req[r].pc = "use"]
    /\ UNCHANGED <<ds, slog, pc, txn, trace, outcome, clean, awaited>>

\* The route's datastore operations: query(), or transaction(txn, max_tries=4).
UseDatastore(r) ==
    /\ app.req[r].pc = "use"
    /\ app' = At(app, r, "exit")
    /\ UNCHANGED <<ds, slog, pc, txn, trace, outcome, clean, awaited>>

\* The with block ends, by return or by exception: the Lock is released and
\* the request's reference to it goes away.
LockRelease(r) ==
    /\ app.req[r].pc = "exit"
    /\ app' = [app EXCEPT !.holder[app.req[r].lock] = 0, !.req[r].lock = 0, !.req[r].pc = "done"]
    /\ UNCHANGED <<ds, slog, pc, txn, trace, outcome, clean, awaited>>

\* The WeakValueDictionary drops the entry of a Lock that no request refers
\* to any more.
Collect(token) ==
    /\ token \in DOMAIN app.locks
    /\ \A r \in Requests : app.req[r].lock # app.locks[token]
    /\ app' = [app EXCEPT !.locks = [x \in DOMAIN @ \ {token} |-> @[x]]]
    /\ UNCHANGED <<ds, slog, pc, txn, trace, outcome, clean, awaited>>

TasksInit ==
    /\ ds = Datastore_init(FALSE, "owner")
    /\ slog = <<>>
    /\ pc = "idle"
    /\ txn = TxnIdle
    /\ trace = <<>>
    /\ clean = CleanOf(ds)
    /\ awaited = NoBatch
    /\ outcome = [Out("init", 0, "none", FALSE, NoRequest, 0, "") EXCEPT !.pending = 0]
    /\ \E n \in CacheFills : app = AppWith([i \in 1..n |-> i])

TasksNext ==
    \/ \E r \in Requests, token \in ReqTokens, refresh \in BOOLEAN : Arrive(r, token, refresh)
    \/ \E r \in Requests : DummyLock(r)
    \/ \E r \in Requests : MetaAcquire(r)
    \/ \E r \in Requests : GetAccessTokenLock(r)
    \/ \E r \in Requests : LockAcquire(r)
    \/ \E r \in Requests : CacheGet(r)
    \/ \E r \in Requests : CacheDelOwn(r)
    \/ \E r \in Requests, ok \in BOOLEAN : Refresh(r, ok)
    \/ \E r \in Requests, ok \in BOOLEAN : Connect(r, ok)
    \/ \E r \in Requests : LenCheck(r)
    \/ \E r \in Requests : PickOldest(r)
    \/ \E r \in Requests : Evict(r)
    \/ \E r \in Requests : CacheSet(r)
    \/ \E r \in Requests : UseDatastore(r)
    \/ \E r \in Requests : LockRelease(r)
    \/ \E token \in ReqTokens : Collect(token)

SpecTasks == TasksInit /\ [][TasksNext]_vars

\* ---------------------------------------------------------------- background await
\* DatastoreManager.await(datastores=[ds]) in a background thread reads
\* ds._rev as the cursor, whatever the foreground is doing, and sends it.
AwaitSend ==
    /\ awaited.state = "none"
    /\ awaited' = [state |-> "sent", cursor |-> ds.rev, deltas |-> <<>>]
    /\ UNCHANGED <<ds, slog, pc, txn, trace, outcome, clean, app>>

\* The server answers once it has deltas from the cursor on, with all of
\* them; the batch waits in a queue for the foreground.
AwaitReply ==
    /\ awaited.state = "sent"
    /\ Len(slog) > awaited.cursor
    /\ awaited' = [awaited EXCEPT !.state = "fetched",
                                  !.deltas = SubSeq(slog, awaited.cursor + 1, Len(slog))]
    /\ UNCHANGED <<ds, slog, pc, txn, trace, outcome, clean, app>>

\* The foreground takes the batch from the queue and calls
\* ds.apply_deltas(deltas).
ApplyAwaited ==
    /\ pc = "idle"
    /\ awaited.state = "fetched"
    /\ ds' = Settle(apply_deltas(ds, awaited.deltas))
    /\ outcome' = Out("apply_deltas", Len(awaited.deltas),
                      apply_deltas(ds, awaited.deltas).exc, FALSE, NoRequest, 0, "")
    /\ clean' = IF ds.changes = <<>> THEN CleanOf(ds) ELSE clean
    /\ awaited' = NoBatch
    /\ UNCHANGED app
    /\ txn' = TxnIdle
    /\ trace' = <<>>
    /\ UNCHANGED <<slog, pc>>

\* A foreground that stages changes, commits, rolls back, loads deltas and
\* runs transactions, another writer, and a background await whose batch
\* reaches the foreground at any later time.
AwaitNext ==
    \/ \E r \in Rids, fields \in InsertArgs : GetOrInsert(r, fields)
    \/ \E r \in Rids, kwds \in UpdateArgs : Update(r, kwds)
    \/ \E r \in Rids : DeleteRecord(r)
    \/ \E now \in Times : Commit(now, "ok")
    \/ Rollback
    \/ LoadDeltas("ok")
    \/ OtherCommit
    \/ \E max_tries \in 1..MaxTries : Transaction(max_tries)
    \/ CallbackReturn
    \/ CallbackRaise
    \/ \E now \in Times : TxnCommit(now, "ok")
    \/ TxnRollback
    \/ TxnLoadDeltas("ok")
    \/ AwaitSend
    \/ AwaitReply
    \/ ApplyAwaited

SpecAwait == LocalInit /\ [][AwaitNext]_vars

\* ---------------------------------------------------------------- properties
\* DatastoreError and its subclasses.
IsDatastoreError(exc) ==
    exc \in {"DatastoreError", "DatastoreNotFoundError", "DatastoreConflictError",
             "DatastorePermissionError"}

Count(s, e) == Cardinality({i \in 1..Len(s) : s[i] = e})
Has(s, e) == \E i \in 1..Len(s) : s[i] = e

\* What the server held at revision rev.
ServerAt(log, rev) == ApplyDeltasLoop(Datastore_init(FALSE, "owner"), SubSeq(log, 1, rev))

\* A transaction() has ended, by returning or by raising.
TxnOver == pc = "idle" /\ outcome.op = "transaction" /\ trace # <<>>

\* C1: in transaction(), after commit() raised DatastoreConflictError,
\* rollback() has emptied the pending queue before load_deltas() is called,
\* and load_deltas() has completed before the callback is invoked again;
\* load_deltas() is never entered while changes are pending.
C1_RollbackLoadRetry ==
    /\ pc = "load_deltas" => ds.changes = <<>> /\ trace[Len(trace)] = "rollback"
    /\ \A i \in 1..Len(trace) :
          /\ trace[i] = "commit_conflict" /\ i < Len(trace) => trace[i + 1] = "rollback"
          /\ trace[i] \in {"load_deltas", "load_failed"} =>
                i > 2 /\ trace[i - 1] = "rollback" /\ trace[i - 2] = "commit_conflict"
          /\ trace[i] = "callback" /\ i > 1 => trace[i - 1] = "load_deltas"

\* The callback runs again after a conflict, a rollback and a load.
C1_Witness ==
    /\ pc = "callback"
    /\ Len(trace) = 5
    /\ trace[2] = "commit_conflict"
    /\ ds.rev > 0

\* transaction() returns.
TxnReturns == pc = "commit" /\ pc' = "idle" /\ outcome'.exc = "none"

\* C2: when commit() conflicts k < max_tries times and then succeeds,
\* transaction() has invoked the callback k + 1 times and returns what the
\* last invocation returned; the queue is then empty, the revision is the
\* one the server answered, and the records are the server's at that
\* revision: nothing the earlier attempts staged is left.
C2_RetryThenSuccess ==
    [][TxnReturns =>
        /\ Count(trace', "commit_conflict") < txn.max_tries
        /\ Count(trace', "callback") = Count(trace', "commit_conflict") + 1
        /\ outcome'.rv = Count(trace', "commit_conflict") + 1
        /\ ds'.changes = <<>>
        /\ ds'.records = ServerAt(slog', ds'.rev).records
        /\ ds'.size = ServerAt(slog', ds'.rev).size
        /\ IF ds.changes # <<>> THEN slog' # slog /\ ds'.rev = Len(slog')
           ELSE slog' = slog /\ ds'.rev = ds.rev]_vars

\* transaction() has returned the second invocation's value after one conflict,
\* having committed a record of its own.
C2_Witness ==
    /\ TxnOver
    /\ outcome.exc = "none"
    /\ outcome.rv = 2
    /\ Count(trace, "commit_conflict") = 1
    /\ ds.rev = Len(slog)
    /\ ds.rev = MaxRev
    /\ "r1" \in DOMAIN ds.records["t1"]

\* A transaction() all of whose commits conflicted, whose callback never raised.
EveryCommitConflicted ==
    /\ TxnOver
    /\ ~Has(trace, "commit_ok")
    /\ ~Has(trace, "commit_error")
    /\ ~Has(trace, "raise")

\* n rounds of callback, conflict, rollback, load_deltas.
RECURSIVE RetryRounds(_)
RetryRounds(n) ==
    IF n = 0 THEN <<>>
    ELSE RetryRounds(n - 1) \o <<"callback", "commit_conflict", "rollback", "load_deltas">>

\* transaction() has given up after max_tries full rounds.
GaveUp ==
    /\ Count(trace, "callback") = txn.max_tries
    /\ trace = RetryRounds(txn.max_tries)
    /\ outcome.exc = "DatastoreError"
    /\ outcome.msg = (IF txn.max_tries = 1
                      THEN "Failed to commit; set max_tries to a value > 1 to retry"
                      ELSE "Failed to commit %d times in a row")
    /\ ds.changes = <<>>

Reraised ==
    /\ TxnOver
    /\ Len(trace) >= 2
    /\ trace[Len(trace) - 1] \in {"raise", "commit_error"}

C6_CommitSends ==
    [][\A now \in Times :
          pc = "idle" /\ ds.changes # <<>> /\ Commit(now, "ok") =>
             /\ outcome'.req # NoRequest
             /\ outcome'.req.rev = ds.rev
             /\ Len(outcome'.req.changes) >= Len(ds.changes)
             /\ \A i \in 1..Len(ds.changes) :
                   outcome'.req.changes[i] = _Change_to_json(ds.changes[i])
             /\ ds.rev = Len(slog) =>
                   /\ outcome'.exc = "none"
                   /\ slog' = Append(slog, outcome'.req)
                   /\ ds'.rev = Len(slog')
                   /\ ds'.changes = <<>>
                   /\ ds'.records["t1"] = ds.records["t1"]]_vars

\* commit() has sent MaxPending changes and the server has accepted them.
C6_Witness ==
    /\ outcome.op = "commit"
    /\ outcome.exc = "none"
    /\ outcome.pending = MaxPending
    /\ Len(outcome.req.changes) > MaxPending
    /\ outcome.req.changes[1].op = "I"
    /\ outcome.req.changes[2].op = "U"
    /\ ds.rev = outcome.req.rev + 1

\* C7: when the server answers a commit with a conflict, commit() raises
\* DatastoreConflictError, the revision is unchanged and every change staged
\* before the call is still in the queue, in the same order: nothing is
\* rolled back.
C7_ConflictKeepsQueue ==
    [][\A now \in Times :
          pc = "idle" /\ ds.changes # <<>> /\ ds.rev # Len(slog) /\ Commit(now, "ok") =>
             /\ outcome'.exc = "DatastoreConflictError"
             /\ ds'.rev = ds.rev
             /\ slog' = slog
             /\ Len(ds'.changes) >= Len(ds.changes)
             /\ SubSeq(ds'.changes, 1, Len(ds.changes)) = ds.changes
             /\ ds'.records["t1"] = ds.records["t1"]]_vars

\* commit() has raised DatastoreConflictError with MaxPending changes staged.
C7_Witness ==
    /\ outcome.op = "commit"
    /\ outcome.exc = "DatastoreConflictError"
    /\ outcome.pending = MaxPending
    /\ Len(ds.changes) > MaxPending
    /\ ds.rev < Len(slog)

\* C8 as stated: commit() on a datastore without pending changes, whatever
\* the datastore and the role, sends no request, raises nothing and leaves
\* revision, records and queue as they are.
C8_AsStated ==
    [][\A now \in Times, fault \in Faults :
          pc = "idle" /\ ds.changes = <<>> /\ Commit(now, fault) =>
             /\ outcome'.exc = "none"
             /\ outcome'.req = NoRequest
             /\ ~outcome'.net
             /\ ds' = ds
             /\ slog' = slog]_vars

\* The deltas of a batch that apply_deltas applies, starting at revision cur.
RECURSIVE AppliedCount(_, _)
AppliedCount(cur, deltas) ==
    IF deltas = <<>> THEN 0
    ELSE IF Head(deltas).rev < cur THEN AppliedCount(cur, Tail(deltas))
    ELSE IF Head(deltas).rev > cur THEN 0
    ELSE 1 + AppliedCount(cur + 1, Tail(deltas))

\* The batch holds a delta ahead of the revision reached when its turn comes.
RECURSIVE HasGap(_, _)
HasGap(cur, deltas) ==
    IF deltas = <<>> THEN FALSE
    ELSE IF Head(deltas).rev < cur THEN HasGap(cur, Tail(deltas))
    ELSE IF Head(deltas).rev > cur THEN TRUE
    ELSE HasGap(cur + 1, Tail(deltas))

\* C9: apply_deltas takes the deltas in order: one with rev below the
\* current revision is skipped and leaves the records alone, one with rev
\* equal to it is applied and the revision becomes rev + 1, one with rev
\* above it raises DatastoreError; so the revision never decreases and
\* grows by the number of deltas applied.
C9_ApplyDeltasRevisions ==
    [][\A deltas \in DeltaInputs :
          pc = "idle" /\ ds.changes = <<>> /\ ApplyDeltasCall(deltas) =>
             /\ ds'.rev = ds.rev + AppliedCount(ds.rev, deltas)
             /\ ds'.rev >= ds.rev
             /\ outcome'.exc = (IF HasGap(ds.rev, deltas) THEN "DatastoreError" ELSE "none")
             /\ AppliedCount(ds.rev, deltas) = 0 => ds'.records = ds.records
             /\ ds'.records = ServerAt(slog, ds'.rev).records]_vars

\* apply_deltas has skipped one delta and applied the next.
C9_Witness ==
    /\ outcome.op = "apply_deltas"
    /\ outcome.arg = 2
    /\ outcome.exc = "none"
    /\ clean.rev = 1
    /\ ds.rev = 2

\* The call is refused: DatastoreError, no request, no callback, nothing changed.
Refused ==
    /\ outcome'.exc = "DatastoreError"
    /\ ~outcome'.net
    /\ pc' = "idle"
    /\ trace' = <<>>
    /\ ds' = ds
    /\ slog' = slog

C11_AsStated ==
    [][\A fault \in Faults :
          pc = "idle" /\ ds.changes # <<>> /\ (LoadSnapshot(fault) \/ ApplySnapshot) =>
             /\ outcome'.exc # "none"
             /\ ds'.changes = ds.changes]_vars

\* C11: with a change pending, apply_snapshot() and a load_snapshot() that
\* the server answers raise nothing; they drop the pending queue, neither
\* rolled back nor sent, and leave the snapshot's records and revision.  A
\* load_snapshot() that the server refuses raises and changes nothing.
C11_SnapshotDiscardsPending ==
    [][/\ \A snap \in SnapshotInputs :
             pc = "idle" /\ ds.changes # <<>> /\ ApplySnapshotCall(snap) =>
                /\ outcome'.exc = "none"
                /\ ds'.changes = <<>>
                /\ ds'.rev = snap.rev
                /\ ds'.records = ServerAt(slog, snap.rev).records
                /\ slog' = slog
       /\ \A fault \in Faults :
             pc = "idle" /\ ds.changes # <<>> /\ LoadSnapshot(fault) =>
                IF fault = "ok"
                THEN /\ outcome'.exc = "none"
                     /\ ds'.changes = <<>>
                     /\ ds'.rev = Len(slog)
                     /\ ds'.records = ServerAt(slog, Len(slog)).records
                     /\ slog' = slog
                ELSE /\ outcome'.exc = "DatastoreNotFoundError"
                     /\ ds' = ds
                     /\ slog' = slog]_vars

\* load_snapshot() has replaced a datastore that had changes pending by the
\* server's, which holds a record.
C11_Witness ==
    /\ outcome.op = "load_snapshot"
    /\ outcome.pending > 0
    /\ outcome.exc = "none"
    /\ ds.changes = <<>>
    /\ ds.rev > 0
    /\ ds.record_count > 0

\* C12 as stated: get_pending_changes_size() is 0 when the pending queue is
\* empty, and otherwise BASE_DELTA_SIZE plus the sizes of exactly the
\* changes now in the queue, also after a commit() or rollback() emptied it.
C12_AsStated ==
    get_pending_changes_size(ds) =
        IF ds.changes = <<>> THEN 0
        ELSE BASE_DELTA_SIZE + SumSeq([i \in 1..Len(ds.changes) |-> _Change_size(ds.changes[i])])

\* The bytes a value counts for: the length of a string or blob, for a list
\* BASE_ITEM_SIZE per item plus the items' bytes, nothing for the rest.
PayloadBytes(v) ==
    IF v.t \in {"list", "pylist"}
    THEN SumSeq([i \in 1..Len(v.items) |->
                    BASE_ITEM_SIZE + (IF v.items[i].t \in {"str", "bytes"} THEN v.items[i].n ELSE 0)])
    ELSE IF v.t \in {"str", "bytes"} THEN v.n ELSE 0

RecordBytes(fields) ==
    BASE_RECORD_SIZE
        + SumOver([k \in DOMAIN fields |-> BASE_FIELD_SIZE + PayloadBytes(fields[k])], DOMAIN fields)

TableBytes(records) ==
    SumOver([r \in DOMAIN records |-> RecordBytes(records[r])], DOMAIN records)

\* C13: get_size() is BASE_DATASTORE_SIZE plus, over all existing records,
\* BASE_RECORD_SIZE plus the field sizes recomputed from the fields;
\* get_record_count() is the number of existing records; each record's
\* cached size is its recomputed size.
C13_SizesFromScratch ==
    /\ ds.size = BASE_DATASTORE_SIZE
                   + SumOver([tid \in Tids |-> TableBytes(ds.records[tid])], Tids)
    /\ ds.record_count =
          SumOver([tid \in Tids |-> Cardinality(DOMAIN ds.records[tid])], Tids)
    /\ \A tid \in Tids :
          /\ DOMAIN ds.record_sizes[tid] = DOMAIN ds.records[tid]
          /\ \A r \in DOMAIN ds.records[tid] :
                ds.record_sizes[tid][r] = RecordBytes(ds.records[tid][r])

\* A rollback has undone MaxPending changes on a datastore whose record r1
\* holds a list that another writer's delta created.
C13_Witness ==
    /\ outcome.op = "rollback"
    /\ outcome.pending = MaxPending
    /\ ds.rev = MaxRev
    /\ Len(slog[MaxRev].changes) = 1
    /\ "r1" \in DOMAIN ds.records["t1"]
    /\ DictGet(ds.records["t1"]["r1"], "g") = ListV(<<>>)

\* C14: Table.query(**kw) returns exactly the records in which every
\* supplied field exists and equals the supplied value, an int and a
\* float of the same numeric value being equal and a boolean never equal
\* to a number.
SameAtom(a, b) ==
    \/ a = b /\ ~(a.t = "float" /\ "sp" \in DOMAIN a /\ a.sp = "nan")
    \/ /\ {a.t, b.t} = {"int", "float"}
       /\ "sp" \notin DOMAIN a /\ "sp" \notin DOMAIN b
       /\ a.n = b.n

SameValue(a, b) ==
    IF IsSequence(a) \/ IsSequence(b)
    THEN /\ IsSequence(a) /\ IsSequence(b)
         /\ Len(a.items) = Len(b.items)
         /\ \A i \in 1..Len(a.items) : SameAtom(a.items[i], b.items[i])
    ELSE SameAtom(a, b)

C14_AsStated ==
    (outcome.op = "query" /\ outcome.exc = "none") =>
        outcome.rv =
            {r \in DOMAIN ds.records["t1"] :
                \A f \in DOMAIN outcome.arg :
                    /\ f \in DOMAIN ds.records["t1"][r]
                    /\ SameValue(ds.records["t1"][r][f], outcome.arg[f])}

\* The same for filters whose values are atoms.
C14_Atoms ==
    (outcome.op = "query" /\ outcome.exc = "none"
        /\ \A f \in DOMAIN outcome.arg : ~IsSequence(outcome.arg[f])) =>
        outcome.rv =
            {r \in DOMAIN ds.records["t1"] :
                \A f \in DOMAIN outcome.arg :
                    /\ f \in DOMAIN ds.records["t1"][r]
                    /\ SameValue(ds.records["t1"][r][f], outcome.arg[f])}

\* C15: Record.update(f=None), like Record.delete(f) and Record.set(f, None),
\* deletes field f whatever its value: afterwards the record has no f; when
\* f existed exactly one Update change with a Delete op for f, whose undo
\* is the old value, is staged; when f did not exist nothing is staged.
C15_AsStated ==
    [][\A r \in Rids, f \in {"f", "g"} :
        (/\ outcome'.op = "update"
         /\ outcome'.exc = "none"
         /\ ds' = Settle(Record_update(ds, "t1", r, (f :> None))))
        => /\ f \notin DOMAIN ds'.records["t1"][r]
           /\ ds'.changes =
                 IF f \in DOMAIN ds.records["t1"][r]
                 THEN Append(ds.changes,
                             _Change("U", "t1", r, (f :> ValueDelete),
                                     (f :> ds.records["t1"][r][f])))
                 ELSE ds.changes]_vars

\* C16: Record.update is atomic.  Either it raises and the datastore is
\* as before (no field, no size, no pending change differs), or every
\* supplied value is in the record and exactly one Update change with one
\* op per changed field has been appended to the queue (none when the call
\* had no field to change).  An insert with an invalid or None field
\* changes and stages nothing.
UpdateApplied(before, after, r, kwds) ==
    /\ Len(after.changes) = Len(before.changes) + 1
    /\ SubSeq(after.changes, 1, Len(before.changes)) = before.changes
    /\ r \in DOMAIN after.records["t1"]
    /\ after.changes[Len(after.changes)].op = "U"
    /\ after.changes[Len(after.changes)].recordid = r
    /\ DOMAIN after.changes[Len(after.changes)].data =
          {f \in DOMAIN kwds :
              \/ kwds[f] # None
              \/ f \in DOMAIN before.records["t1"][r] \ DOMAIN after.records["t1"][r]}
    /\ \A f \in DOMAIN after.changes[Len(after.changes)].data :
          after.changes[Len(after.changes)].data[f] =
              IF kwds[f] = None THEN ValueDelete ELSE ValuePut(kwds[f])
    /\ \A f \in DOMAIN kwds :
          kwds[f] # None => DictGet(after.records["t1"][r], f) = kwds[f]
    /\ \A f \in {"f", "g", "h"} \ DOMAIN kwds :
          DictGet(after.records["t1"][r], f) = DictGet(before.records["t1"][r], f)

IsDeleted(r) ==
    /\ r \notin DOMAIN ds.records["t1"]
    /\ ~Failed(_check_edit_permission(ds))

C17_DeletedStaysDeleted ==
    /\ [](\A r \in Rids :
            IsDeleted(r) => /\ Record_get_fields(ds, "t1", r) = EmptyDict
                            /\ _get_record_size(ds, "t1", r) = 0)
    /\ [][\A r \in Rids :
            IsDeleted(r) =>
              /\ outcome'.op \in {"update", "delete_record", "get_or_create_list",
                                  "List.append"} => ds' = ds
              /\ outcome'.op = "delete_record" => outcome'.exc = "none"
              /\ outcome'.op \in {"update", "get_or_create_list"} =>
                    outcome'.exc = "DatastoreError"]_vars

\* delete_record() has been called on a record whose deletion is pending.
C17_Witness ==
    /\ outcome.op = "delete_record"
    /\ outcome.exc = "none"
    /\ outcome.pending = 1
    /\ Len(ds.changes) = 1
    /\ ds.changes[1].op = "D"
    /\ ds.changes[1].recordid = "r1"
    /\ IsDeleted("r1")

\* C18: a deleted record cannot be re-inserted: once delete_record() has
\* been staged for r, get_or_insert(r, ...) does not bring r back.
C18_AsStated ==
    [][\A r \in Rids :
        (/\ r \notin DOMAIN ds.records["t1"]
         /\ \E i \in 1..Len(ds.changes) :
                ds.changes[i].op = "D" /\ ds.changes[i].recordid = r
         /\ outcome'.op = "get_or_insert")
        => r \notin DOMAIN ds'.records["t1"]]_vars

\* The index a negative index counts from the end of a list of n items.
Resolved(index, n) == IF index < 0 THEN index + n ELSE index

\* A list call with these resolved indexes on a list of n items either
\* staged the op, or raised IndexError and changed nothing.
IndexChecked(before, after, exc, indexes, n, op) ==
    IF \A k \in indexes : 0 <= k /\ k < n
    THEN /\ exc = "none"
         /\ Len(after.changes) = Len(before.changes) + 1
         /\ after.changes[Len(after.changes)].data = ("g" :> op)
    ELSE exc = "IndexError" /\ after = before

\* C19: List.__setitem__, List.__delitem__ and List.move take a negative
\* index as counted from the end, and raise IndexError when a resolved
\* index (either one of move) is outside [0, len); when they raise, the
\* list is as before and nothing is staged.
C19_IndexErrors ==
    [][\A r \in Rids :
        List_check_ok(ds, "t1", r, "g") =>
          /\ \A i \in WideIndexes, v \in ListValues :
                (/\ outcome'.op = "List.__setitem__"
                 /\ outcome'.exc = List_setitem(ds, "t1", r, "g", i, v).exc
                 /\ ds' = Settle(List_setitem(ds, "t1", r, "g", i, v)))
                => /\ IndexChecked(ds, ds', outcome'.exc,
                                   {Resolved(i, Len(ListItems(ds, "t1", r, "g")))},
                                   Len(ListItems(ds, "t1", r, "g")),
                                   _make_list_put(
                                       Resolved(i, Len(ListItems(ds, "t1", r, "g"))), v))
                   /\ outcome'.exc = "none" =>
                         ListItems(ds', "t1", r, "g") =
                           [ListItems(ds, "t1", r, "g") EXCEPT
                              ![Resolved(i, Len(ListItems(ds, "t1", r, "g"))) + 1] = v]
          /\ \A i \in WideIndexes :
                (/\ outcome'.op = "List.__delitem__"
                 /\ outcome'.exc = List_delitem(ds, "t1", r, "g", i).exc
                 /\ ds' = Settle(List_delitem(ds, "t1", r, "g", i)))
                => /\ IndexChecked(ds, ds', outcome'.exc,
                                   {Resolved(i, Len(ListItems(ds, "t1", r, "g")))},
                                   Len(ListItems(ds, "t1", r, "g")),
                                   _make_list_delete(
                                       Resolved(i, Len(ListItems(ds, "t1", r, "g")))))
                   /\ outcome'.exc = "none" =>
                         Len(ListItems(ds', "t1", r, "g")) =
                           Len(ListItems(ds, "t1", r, "g")) - 1
          /\ \A i \in WideIndexes, j \in WideIndexes :
                (/\ outcome'.op = "List.move"
                 /\ outcome'.exc = List_move(ds, "t1", r, "g", i, j).exc
                 /\ ds' = Settle(List_move(ds, "t1", r, "g", i, j)))
                => /\ IndexChecked(ds, ds', outcome'.exc,
                                   {Resolved(i, Len(ListItems(ds, "t1", r, "g"))),
                                    Resolved(j, Len(ListItems(ds, "t1", r, "g")))},
                                   Len(ListItems(ds, "t1", r, "g")),
                                   _make_list_move(
                                       Resolved(i, Len(ListItems(ds, "t1", r, "g"))),
                                       Resolved(j, Len(ListItems(ds, "t1", r, "g")))))
                   /\ outcome'.exc = "none" =>
                         ListItems(ds', "t1", r, "g")
                             [Resolved(j, Len(ListItems(ds, "t1", r, "g"))) + 1] =
                           ListItems(ds, "t1", r, "g")
                             [Resolved(i, Len(ListItems(ds, "t1", r, "g"))) + 1]]_vars

\* A put at a negative index has been staged with the index counted from
\* the end, and the next call on the list has raised IndexError.
C19_Witness ==
    /\ outcome.exc = "IndexError"
    /\ outcome.op \in {"List.__setitem__", "List.__delitem__", "List.move"}
    /\ ds.rev = 1
    /\ Len(ds.changes) = 1
    /\ ds.changes[1].data = ("g" :> _make_list_put(1, IntV(1)))
    /\ ds.changes[1].undo = ("g" :> ListV(<<IntV(1), StrV(2)>>))

\* C20: List.insert(index, value) raises an index-out-of-range error,
\* changing and staging nothing, whenever the index resolved with the
\* negative-index rule is outside [0, len].
C20_AsStated ==
    [][\A r \in Rids, i \in WideIndexes, v \in ListValues :
        (/\ List_check_ok(ds, "t1", r, "g")
         /\ outcome'.op = "List.insert"
         /\ outcome'.exc = List_insert(ds, "t1", r, "g", i, v).exc
         /\ ds' = Settle(List_insert(ds, "t1", r, "g", i, v))
         /\ ~(/\ 0 <= Resolved(i, Len(ListItems(ds, "t1", r, "g")))
              /\ Resolved(i, Len(ListItems(ds, "t1", r, "g")))
                    <= Len(ListItems(ds, "t1", r, "g"))))
        => outcome'.exc = "IndexError" /\ ds' = ds]_vars

\* C20 as the code has it: List.insert never raises for its index; an
\* index that resolves below 0 inserts at 0, one above len inserts at len,
\* and one Insert op with the index actually used is staged.
Clamped(k, n) == IF k < 0 THEN 0 ELSE IF k > n THEN n ELSE k

C20_InsertClamps ==
    [][\A r \in Rids, i \in WideIndexes, v \in ListValues :
        (/\ List_check_ok(ds, "t1", r, "g")
         /\ outcome'.op = "List.insert"
         /\ outcome'.exc = List_insert(ds, "t1", r, "g", i, v).exc
         /\ ds' = Settle(List_insert(ds, "t1", r, "g", i, v)))
        => /\ outcome'.exc = "none"
           /\ Len(ds'.changes) = Len(ds.changes) + 1
           /\ ds'.changes[Len(ds'.changes)].data =
                 ("g" :> _make_list_insert(
                            Clamped(Resolved(i, Len(ListItems(ds, "t1", r, "g"))),
                                    Len(ListItems(ds, "t1", r, "g"))), v))
           /\ Len(ListItems(ds', "t1", r, "g")) = Len(ListItems(ds, "t1", r, "g")) + 1
           /\ ListItems(ds', "t1", r, "g")
                 [Clamped(Resolved(i, Len(ListItems(ds, "t1", r, "g"))),
                          Len(ListItems(ds, "t1", r, "g"))) + 1] = v]_vars

\* An insert into a list of one item has been staged.
C20_Witness ==
    /\ outcome.op = "List.insert"
    /\ outcome.exc = "none"
    /\ ds.rev = 1
    /\ Len(ds.changes) = 2
    /\ ds.changes[2].undo = ("g" :> ListV(<<StrV(2)>>))
    /\ ds.changes[2].data = ("g" :> _make_list_insert(1, IntV(1)))

\* The list op an elementary List call stages, and the indexes it may carry
\* on a list of n items.
ListOpOf(call) ==
    CASE call = "List.__setitem__" -> "LP"
      [] call \in {"List.__delitem__", "List.pop"} -> "LD"
      [] call \in {"List.insert", "List.append"} -> "LI"
      [] OTHER -> "LM"

OneListOp(ch, call, n) ==
    /\ ch.op = "U"
    /\ DOMAIN ch.data = {"g"}
    /\ ch.data["g"].o = ListOpOf(call)
    /\ 0 <= ch.data["g"].i
    /\ IF ch.data["g"].o = "LI" THEN ch.data["g"].i <= n ELSE ch.data["g"].i < n
    /\ ch.data["g"].o = "LM" => 0 <= ch.data["g"].j /\ ch.data["g"].j < n
    /\ call = "List.append" => ch.data["g"].i = n

\* C21: every elementary List mutation (set item, delete item, insert,
\* append, move) appends exactly one Update change holding exactly one list
\* op, whose index is the resolved index, non-negative and in range (for
\* insert, clamped into [0, len]); extend with n items appends n changes,
\* one Insert op each, and pop appends one.
C21_OneChangePerEdit ==
    [][\A r \in Rids :
        List_check_ok(ds, "t1", r, "g") =>
          /\ (/\ outcome'.exc = "none"
              /\ outcome'.op \in {"List.__setitem__", "List.__delitem__", "List.insert",
                                  "List.append", "List.move", "List.pop"})
             => /\ Len(ds'.changes) = Len(ds.changes) + 1
                /\ SubSeq(ds'.changes, 1, Len(ds.changes)) = ds.changes
                /\ OneListOp(ds'.changes[Len(ds'.changes)], outcome'.op,
                             Len(ListItems(ds, "t1", r, "g")))
          /\ \A vs \in {<<>>, <<StrV(2)>>, <<IntV(1), StrV(2)>>} :
                (/\ outcome'.op = "List.extend"
                 /\ outcome'.exc = "none"
                 /\ ds' = Settle(List_extend(ds, "t1", r, "g", vs)))
                => /\ Len(ds'.changes) = Len(ds.changes) + Len(vs)
                   /\ SubSeq(ds'.changes, 1, Len(ds.changes)) = ds.changes
                   /\ \A k \in 1..Len(vs) :
                         /\ ds'.changes[Len(ds.changes) + k].op = "U"
                         /\ ds'.changes[Len(ds.changes) + k].data =
                               ("g" :> _make_list_insert(
                                          Len(ListItems(ds, "t1", r, "g")) + k - 1,
                                          vs[k]))]_vars

\* extend with two items has staged two changes on an empty list.
C21_Witness ==
    /\ outcome.op = "List.extend"
    /\ outcome.exc = "none"
    /\ outcome.pending = 0
    /\ Len(ds.changes) = 2
    /\ ds.changes[1].data = ("g" :> _make_list_insert(0, IntV(1)))
    /\ ds.changes[2].data = ("g" :> _make_list_insert(1, StrV(2)))

\* C22: a List handle is a live view of (record, field).  While the record
\* is deleted or the field holds no list, every access through the handle
\* (len, iteration, indexing, mutation) raises TypeError and changes
\* nothing; while the field holds a list, every handle reads the sequence
\* the field holds now, whichever handle changed it.
C22_LiveHandles ==
    [][\A r \in Rids :
        /\ (/\ ~List_check_ok(ds, "t1", r, "g")
            /\ outcome'.op \in {"List.__len__", "List.__iter__", "List.__getitem__",
                                "List.__setitem__", "List.__delitem__", "List.insert",
                                "List.append", "List.move", "List.pop"})
           => outcome'.exc = "TypeError" /\ ds' = ds
        /\ (List_check_ok(ds, "t1", r, "g") /\ outcome'.exc = "none")
           => /\ outcome'.op = "List.__len__" =>
                    outcome'.rv = Len(ds.records["t1"][r]["g"].items)
              /\ outcome'.op = "List.__iter__" =>
                    outcome'.rv = ds.records["t1"][r]["g"].items
              /\ outcome'.op = "List.__getitem__" =>
                    \E k \in 1..Len(ds.records["t1"][r]["g"].items) :
                        outcome'.rv = ds.records["t1"][r]["g"].items[k]]_vars

\* The field of a list of two items has been overwritten with a number,
\* and a handle of the list has been asked for its length.
C22_Witness ==
    /\ outcome.op = "List.__len__"
    /\ outcome.exc = "TypeError"
    /\ Len(ds.changes) = 1
    /\ ds.changes[1].undo = ("g" :> ListV(<<IntV(1), StrV(2)>>))
    /\ ds.changes[1].data = ("g" :> ValuePut(IntV(5)))

\* The calls that may stage a change.
MutatingCalls ==
    {"get_or_insert", "update", "delete_record", "get_or_create_list",
     "List.__setitem__", "List.__delitem__", "List.insert", "List.append",
     "List.move", "set_title", "set_role", "delete_role"}

AsEditor(d) == [d EXCEPT !.role = "editor"]

\* dv is what a call left of the viewer's datastore d, de what the same
\* call leaves of an editor's datastore with the same content: the viewer's
\* call changed nothing, and raised DatastorePermissionError if the
\* editor's staged a change.
Denied(d, dv, de) ==
    /\ Settle(dv) = d
    /\ IF de.changes # <<>> THEN dv.exc = "DatastorePermissionError"
       ELSE dv.exc \in {"DatastorePermissionError", de.exc}

HighestRole(n) ==
    LET threshold == ("owner" :> ROLE_OWNER) @@ ("editor" :> ROLE_EDITOR)
                     @@ ("viewer" :> ROLE_VIEWER)
        reached == {r \in DOMAIN threshold : threshold[r] <= n}
    IN IF reached = {} THEN "none"
       ELSE CHOOSE r \in reached : \A q \in reached : threshold[q] <= threshold[r]

C25_PrivateDatastore ==
    [][~ds.shareable
       => /\ outcome'.op = "get_effective_role" => outcome'.rv = "owner"
          /\ outcome'.op = "is_writable" => outcome'.rv = TRUE
          /\ outcome'.op \in {"get_role", "set_role", "delete_role", "list_roles"}
             => /\ outcome'.exc = "DatastoreError"
                /\ ds' = ds]_vars

\* set_role has been refused on a private datastore that has a change of
\* its title pending.
C25_Witness ==
    /\ ~ds.shareable
    /\ outcome.op = "set_role"
    /\ outcome.exc = "DatastoreError"
    /\ ds.rev = 1
    /\ Len(ds.changes) = 1
    /\ ds.changes[1].tid = ":info"
    /\ ds.records[":acl"] = EmptyDict

\* The role codes that the pending changes write into the ACL table.
PendingAclCodes(d) ==
    {d.changes[k].data["role"].n :
        k \in {i \in 1..Len(d.changes) : d.changes[i].tid = ":acl" /\ d.changes[i].op = "I"}}
    \cup {d.changes[k].data["role"].v.n :
        k \in {i \in 1..Len(d.changes) : d.changes[i].tid = ":acl" /\ d.changes[i].op = "U"}}

\* C26: on a shareable writable datastore set_role(p, NONE) does exactly
\* what delete_role(p) does (the same records, the same staged changes, none
\* if p had no role), and get_role(p) is NONE afterwards; set_role with
\* OWNER or with anything that is not a known role raises and stages
\* nothing, so the pending changes write only editor and viewer codes into
\* the ACL table.
C26_SetRoleNone ==
    [][(ds.shareable /\ is_writable(ds))
       => /\ \A p \in SharingPrincipals :
                (/\ outcome'.op = "set_role"
                 /\ outcome'.exc = set_role(ds, p, RoleStr("none")).exc
                 /\ ds' = Settle(set_role(ds, p, RoleStr("none"))))
                => /\ ds' = Settle(delete_role(ds, p))
                   /\ outcome'.exc = delete_role(ds, p).exc
                   /\ p.isPrincipal
                      => /\ outcome'.exc = "none"
                         /\ get_role(ds', p) = [exc |-> "none", rv |-> "none"]
                         /\ p.key \notin DOMAIN ds.records[":acl"] => ds' = ds
          /\ \A p \in SharingPrincipals :
             \A role \in {RoleStr("owner"), RoleStr("woner"), IntV(ROLE_OWNER), None} :
                (/\ outcome'.op = "set_role"
                 /\ outcome'.exc = set_role(ds, p, role).exc
                 /\ ds' = Settle(set_role(ds, p, role)))
                => /\ outcome'.exc \in {"ValueError", "TypeError"}
                   /\ ds' = ds
          /\ PendingAclCodes(ds') \subseteq {ROLE_EDITOR, ROLE_VIEWER}]_vars

\* set_role(PUBLIC, NONE) has staged the deletion of the public's entry.
C26_Witness ==
    /\ ds.shareable
    /\ ds.role = "editor"
    /\ outcome.op = "set_role"
    /\ outcome.exc = "none"
    /\ ds.changes # <<>>
    /\ ds.changes[Len(ds.changes)].op = "D"
    /\ ds.changes[Len(ds.changes)].tid = ":acl"
    /\ ds.changes[Len(ds.changes)].recordid = "public"
    /\ "public" \notin DOMAIN ds.records[":acl"]

\* C27: _make_role maps an integer code to the highest known role whose
\* threshold it reaches (Owner from 3000, Editor from 2000, Viewer from
\* 1000, None below, negative codes included) and a missing code to Owner,
\* and _make_role(_parse_role(r, owner_ok=True)) is r for each of the four
\* known roles.
C27_RoleCodes ==
    /\ outcome.op = "_make_role"
       => /\ outcome.arg = None => outcome.exc = "none" /\ outcome.rv = "owner"
          /\ outcome.arg.t = "int"
             => outcome.exc = "none" /\ outcome.rv = HighestRole(outcome.arg.n)
    /\ (/\ outcome.op = "_make_role(_parse_role)"
        /\ outcome.arg \in {RoleStr(r) : r \in {"owner", "editor", "viewer", "none"}})
       => outcome.exc = "none" /\ outcome.rv = outcome.arg.s

\* The code just below the owner's has been read as Editor.
C27_Witness ==
    /\ outcome.op = "_make_role"
    /\ outcome.arg = IntV(ROLE_OWNER - 1)
    /\ outcome.exc = "none"
    /\ outcome.rv = "editor"

AtomTypes == {"bool", "int", "float", "str", "date", "bytes"}

\* C28 as stated: for every atom v (bool, int, float, infinities and NaN,
\* string, timestamp, blob) _value_from_json(_value_to_json(v)) has the type
\* of v and equals it; an int travels as the tag I with its decimal digits;
\* a plain JSON number decodes to a float; a bool is a JSON bool both ways.
C28_AsStated ==
    /\ (outcome.op = "_value_from_json(_value_to_json)" /\ outcome.arg.t \in AtomTypes)
       => outcome.rv = outcome.arg
    /\ (outcome.op = "_value_to_json" /\ outcome.arg.t = "int")
       => outcome.rv = [j |-> "I", digits |-> IntToStr(outcome.arg.n)]
    /\ (outcome.op = "_value_to_json" /\ outcome.arg.t = "bool")
       => outcome.rv = [j |-> "bool", n |-> outcome.arg.n]
    /\ (outcome.op = "_value_from_json" /\ outcome.arg.j = "num")
       => outcome.rv = FloatV(outcome.arg.n)
    /\ (outcome.op = "_value_from_json" /\ outcome.arg.j = "bool")
       => outcome.rv = BoolV(outcome.arg.n)

\* The part of C28 that holds: the same, for every atom but a timestamp.
C28_AtomsButDates ==
    /\ (/\ outcome.op = "_value_from_json(_value_to_json)"
        /\ outcome.arg.t \in AtomTypes \ {"date"})
       => outcome.rv = outcome.arg
    /\ (outcome.op = "_value_to_json" /\ outcome.arg.t = "int")
       => outcome.rv = [j |-> "I", digits |-> IntToStr(outcome.arg.n)]
    /\ (outcome.op = "_value_to_json" /\ outcome.arg.t = "bool")
       => outcome.rv = [j |-> "bool", n |-> outcome.arg.n]
    /\ (outcome.op = "_value_from_json" /\ outcome.arg.j = "num")
       => outcome.rv = FloatV(outcome.arg.n)
    /\ (outcome.op = "_value_from_json" /\ outcome.arg.j = "bool")
       => outcome.rv = BoolV(outcome.arg.n)

\* C29 as stated: the wire form of a list of atoms encodes each item as
\* that atom alone is encoded, and decoding a wire form decodes each item as
\* an atom and gives a list field with the same items, of the same types.
C29_AsStated ==
    /\ (outcome.op = "_value_to_json" /\ outcome.arg.t = "list")
       => outcome.rv = [j |-> "array",
                        items |-> [i \in 1..Len(outcome.arg.items) |->
                                     _value_to_json(outcome.arg.items[i])]]
    /\ (outcome.op = "_value_from_json" /\ outcome.arg.j = "array")
       => outcome.rv = ListV([i \in 1..Len(outcome.arg.items) |->
                                _value_from_json(outcome.arg.items[i])])

\* C30: no local mutation (get_or_insert, update, delete_record,
\* get_or_create_list, a List mutator, set_title, set_role, delete_role) and
\* no rollback() changes the revision; a step that changes it is an
\* apply_deltas (alone or inside load_deltas or await_deltas), a commit that
\* the server accepted, or an apply_snapshot (alone or inside load_snapshot).
C30_RevisionFrame ==
    [][/\ outcome'.op \in MutatingCalls \cup {"rollback"} => ds'.rev = ds.rev
       /\ ds'.rev # ds.rev
          => \/ outcome'.op \in {"apply_deltas", "load_deltas", "await_deltas"}
             \/ outcome'.op \in {"apply_snapshot", "load_snapshot"}
             \/ outcome'.op = "commit" /\ outcome'.exc = "none" /\ ds'.changes = <<>>]_vars

\* At revision 1, two changes staged after the commit of the title have
\* been rolled back.
C30_Witness ==
    /\ outcome.op = "rollback"
    /\ outcome.pending = 2
    /\ ds.rev = 1
    /\ ds.changes = <<>>
    /\ "info" \in DOMAIN ds.records[":info"]

\* C31 as stated: whenever the client has no pending change, its records
\* are the server's records at the client's revision, in every interleaving
\* of its mutations, commits, rollbacks and delta loads with the commits of
\* other clients.
C31_AsStated ==
    ds.changes = <<>> => ds.records = ServerAt(slog, ds.rev).records

\* C32: when the foreground applies, with no change pending, a batch that
\* a background await() fetched at an earlier revision, apply_deltas raises
\* nothing, skips the deltas below the current revision (the client's own
\* committed delta among them) and applies the others once each: the
\* revision grows by the number of deltas not below it, to the end of the
\* batch or stays where it is, and the records are the server's at the
\* revision reached; a batch that is stale throughout changes nothing.
C32_AwaitedDeltas ==
    [][(awaited.state = "fetched" /\ awaited'.state = "none" /\ ds.changes = <<>>)
       => LET fresh == {k \in 1..Len(awaited.deltas) : awaited.deltas[k].rev >= ds.rev}
              end == awaited.cursor + Len(awaited.deltas)
          IN /\ outcome'.op = "apply_deltas"
             /\ outcome'.exc = "none"
             /\ ds'.rev = ds.rev + Cardinality(fresh)
             /\ ds'.rev = IF end > ds.rev THEN end ELSE ds.rev
             /\ ds'.records = ServerAt(slog, ds'.rev).records
             /\ fresh = {} => ds' = ds]_vars

\* A batch of two deltas fetched at revision 0 was applied at revision 1:
\* the first, the client's own, was skipped.
C32_Witness ==
    /\ outcome.op = "apply_deltas"
    /\ outcome.arg = 2
    /\ outcome.exc = "none"
    /\ awaited = NoBatch
    /\ clean.rev = 1
    /\ ds.rev = 2
    /\ "info" \in DOMAIN ds.records[":info"]

\* C33 as stated: after apply_snapshot(rev, rows) on a datastore, fresh or
\* populated, the datastore holds the snapshot's records at revision rev
\* with nothing pending, and get_size(), get_record_count() and
\* get_pending_changes_size() are what that content alone gives.
C33_AsStated ==
    [][\A snap \in SnapshotInputs :
          pc = "idle" /\ ApplySnapshotCall(snap) =>
             /\ outcome'.exc = "none"
             /\ ds'.rev = snap.rev
             /\ ds'.changes = <<>>
             /\ ds'.records = ServerAt(slog, snap.rev).records
             /\ get_pending_changes_size(ds') = 0
             /\ get_record_count(ds') =
                   SumOver([tid \in Tids |-> Cardinality(DOMAIN ds'.records[tid])], Tids)
             /\ get_size(ds') =
                   BASE_DATASTORE_SIZE
                     + SumOver([tid \in Tids |-> TableBytes(ds'.records[tid])], Tids)]_vars

\* C34: in every sequence of calls the accounting assertions of
\* Table._update_record_fields and Table._get_record_size never fire: no
\* call ends in one of them, no record with fields lacks a cached size, no
\* cached size is negative and the datastore's size is never below
\* BASE_DATASTORE_SIZE.
C34_AccountingAsserts ==
    /\ outcome.exc \notin {NoCachedSize, InvalidSize, InvalidDatastoreSize}
    /\ \A tid \in Tids :
          /\ \A r \in DOMAIN ds.records[tid] : ~_get_record_size_asserts(ds, tid, r)
          /\ \A r \in DOMAIN ds.record_sizes[tid] : ds.record_sizes[tid][r] >= 0
    /\ ds.size >= BASE_DATASTORE_SIZE

\* A record that arrived in a snapshot, over content the snapshot
\* discarded, has been deleted.
C34_Witness ==
    /\ outcome.op = "delete_record"
    /\ outcome.exc = "none"
    /\ ds.rev > 0
    /\ ds.records["t1"] = <<>>
    /\ ds.size > BASE_DATASTORE_SIZE
                   + SumOver([tid \in Tids |-> TableBytes(ds.records[tid])], Tids)

\* C35: in every reachable state of every table a record id is a key of
\* the field map exactly when it is a key of the cached-size map with a
\* non-zero size, and Record.get_size() of a record that is absent or
\* deleted is 0 (and of an existing record is not).
C35_CachedSizes ==
    /\ \A tid \in Tids :
          /\ DOMAIN ds.records[tid]
                = {r \in DOMAIN ds.record_sizes[tid] : ds.record_sizes[tid][r] # 0}
          /\ \A r \in Rids \ DOMAIN ds.records[tid] :
                Record_get_size(ds, tid, r) = [exc |-> "none", rv |-> 0]
    /\ outcome.op = "Record.get_size"
          => /\ outcome.exc = "none"
             /\ outcome.rv = 0 <=> outcome.arg \notin DOMAIN ds.records["t1"]

\* get_size() has returned 0 for r1, whose deletion is pending, while r2
\* exists.
C35_Witness ==
    /\ outcome.op = "Record.get_size"
    /\ outcome.arg = "r1"
    /\ outcome.rv = 0
    /\ ds.changes # <<>>
    /\ ds.changes[Len(ds.changes)].op = "D"
    /\ ds.changes[Len(ds.changes)].recordid = "r1"
    /\ "r2" \in DOMAIN ds.records["t1"]

\* The inverse the table gives for one field op, before being the field's
\* value before the op.
TableInverse(op, before) ==
    CASE op.o = "P" -> IF before = None THEN ValueDelete ELSE ValuePut(before)
      [] op.o = "D" -> ValuePut(before)
      [] op.o = "LC" -> ValueDelete
      [] op.o = "LP" -> _make_list_put(op.i, before.items[op.i + 1])
      [] op.o = "LI" -> _make_list_delete(op.i)
      [] op.o = "LD" -> _make_list_insert(op.i, before.items[op.i + 1])
      [] OTHER -> _make_list_move(op.j, op.i)

\* C36: _Change.invert follows the inversion table: an Insert becomes a
\* Delete and a Delete an Insert, carrying the fields; each field op of an
\* Update becomes the op the table gives; and for every change without a
\* ListCreate, invert(invert(c)) is c.
C36_InversionTable ==
    /\ outcome.op = "invert"
          => LET c == outcome.arg
                 r == outcome.rv.change
             IN /\ outcome.rv.ok
                /\ r.tid = c.tid /\ r.recordid = c.recordid
                /\ c.op = "I" => r.op = "D" /\ r.data = None /\ r.undo = c.data
                /\ c.op = "D" => r.op = "I" /\ r.data = c.undo /\ r.undo = None
                /\ c.op = "U"
                      => /\ r.op = "U"
                         /\ DOMAIN r.data = DOMAIN c.data
                         /\ \A k \in DOMAIN c.data :
                               r.data[k] = TableInverse(c.data[k], c.undo[k])
    /\ outcome.op = "invert.invert"
          => LET c == outcome.arg
             IN (c.op = "U" => \A k \in DOMAIN c.data : c.data[k].o # "LC")
                   => outcome.rv.ok /\ outcome.rv.change = c

\* A move of the first item of a list of two to the end, next to a put,
\* has been inverted twice.
C36_Witness ==
    /\ outcome.op = "invert.invert"
    /\ outcome.arg.op = "U"
    /\ DOMAIN outcome.arg.data = {"f", "g"}
    /\ outcome.arg.data["g"] = _make_list_move(0, 1)
    /\ outcome.rv.change = outcome.arg

\* C37 as stated: the wire form of a change holds no undo data, and for
\* every Insert, Update (with any of the seven field ops) and Delete change
\* c, _Change.from_json(c.to_json()) is c.without_undo().
C37_AsStated ==
    /\ outcome.op = "to_json" => "undo" \notin DOMAIN outcome.rv
    /\ outcome.op = "from_json(to_json)" => outcome.rv = _Change_without_undo(outcome.arg)

\* What holds: the wire form holds no undo data, and the round trip gives
\* c.without_undo() for changes whose values are atoms other than
\* timestamps.
C37_PlainAtoms ==
    LET c == outcome.arg
        plain(v) == v.t \in {"int", "bool", "float", "str", "bytes"}
        plainop(x) == x.o \in {"P", "LP", "LI"} => plain(x.v)
    IN /\ outcome.op = "to_json" => "undo" \notin DOMAIN outcome.rv
       /\ outcome.op = "from_json(to_json)"
             => \/ c.op = "I" /\ \E k \in DOMAIN c.data : ~plain(c.data[k])
                \/ c.op = "U" /\ \E k \in DOMAIN c.data : ~plainop(c.data[k])
                \/ outcome.rv = _Change_without_undo(c)

\* C38: _Change.size() is BASE_CHANGE_SIZE for a Delete, BASE_CHANGE_SIZE
\* plus BASE_FIELD_SIZE and the value's size per field for an Insert, and
\* BASE_CHANGE_SIZE plus BASE_FIELD_SIZE per field op and the size of the
\* op's value (Put, ListPut and ListInsert only) for an Update; a value
\* costs its length if it is a string or bytes, BASE_ITEM_SIZE per item
\* plus the items' lengths if it is a list, and nothing if it is a boolean,
\* a number or a timestamp.
C38_SizeRules ==
    LET c == outcome.arg
        opbytes(x) == IF x.o \in {"P", "LP", "LI"} THEN PayloadBytes(x.v) ELSE 0
    IN outcome.op = "size"
          => outcome.rv =
                CASE c.op = "D" -> BASE_CHANGE_SIZE
                  [] c.op = "I" ->
                        BASE_CHANGE_SIZE
                          + SumOver([k \in DOMAIN c.data |->
                                        BASE_FIELD_SIZE + PayloadBytes(c.data[k])],
                                    DOMAIN c.data)
                  [] OTHER ->
                        BASE_CHANGE_SIZE
                          + SumOver([k \in DOMAIN c.data |-> BASE_FIELD_SIZE + opbytes(c.data[k])],
                                    DOMAIN c.data)

\* size() of an Update that puts a string of 2 bytes into f and inserts a
\* string of 2 bytes into the list g.
C38_Witness ==
    /\ outcome.op = "size"
    /\ outcome.arg.op = "U"
    /\ DOMAIN outcome.arg.data = {"f", "g"}
    /\ outcome.arg.data["g"].o = "LI"
    /\ outcome.rv = BASE_CHANGE_SIZE + 2 * BASE_FIELD_SIZE + 4

\* Request r holds its Lock and is inside the with block.
InWithBlock(r) ==
    app.req[r].pc \in {"open", "del", "refresh", "connect", "len", "pick", "evict", "set",
                       "use", "exit"}

\* C39: requests carrying the same access token that hold or wait on a Lock
\* obtained from get_access_token_lock() have the same Lock, the one the
\* lock table holds for the token, and at most one of them is inside its
\* with block.
C39_OneLockPerToken ==
    \A r1 \in Requests, r2 \in Requests :
       (/\ r1 # r2
        /\ app.req[r1].token # NoToken
        /\ app.req[r1].token = app.req[r2].token
        /\ app.req[r1].lock # 0
        /\ app.req[r2].lock # 0)
          => /\ app.req[r1].lock = app.req[r2].lock
             /\ app.req[r1].token \in DOMAIN app.locks
             /\ app.locks[app.req[r1].token] = app.req[r1].lock
             /\ ~(InWithBlock(r1) /\ InWithBlock(r2))

\* Request 3 uses the datastore of its token while requests 1 and 2, with
\* the same token, wait on the Lock that request 3 created.
C39_Witness ==
    /\ app.req[3].pc = "use"
    /\ app.req[1].pc = "got"
    /\ app.req[2].pc = "got"
    /\ app.req[1].token = app.req[3].token
    /\ app.req[2].token = app.req[3].token
    /\ app.req[3].token # NoToken
    /\ app.req[1].lock = 3
    /\ app.req[2].lock = 3

\* C40 as stated: while the requests being served carry different access
\* tokens, the cache holds at most CACHE_LIMIT datastores and no request
\* ends in an exception that open_datastore lets through.
C40_AsStated ==
    (\A r1 \in Requests, r2 \in Requests :
        r1 # r2 /\ app.req[r1].pc # "new" /\ app.req[r2].pc # "new"
           => app.req[r1].token # app.req[r2].token)
       => /\ Len(app.cache) <= CACHE_LIMIT
          /\ \A r \in Requests : app.req[r].exc = "none"

====
